---------------------------- MODULE Spec2Model ----------------------------
(***************************************************************************)
(* A model of the Nuggets game server (server/server.c) together with the  *)
(* grid module it rests on (grid/grid.c).  The server is a single-threaded *)
(* message loop: every datagram is handled to completion by one handler,   *)
(* so every handler is one atomic action here.                             *)
(*                                                                         *)
(* Characters are one-character strings, C strings are sequences of        *)
(* characters, a grid is the record (map, nrow, ncol) of grid.c with the   *)
(* map stored row-major exactly as the C array is.                         *)
(***************************************************************************)
EXTENDS Integers, Sequences, FiniteSets, TLC

(***************************************************************************)
(* Program constants of server.c                                           *)
(***************************************************************************)
MaxNameLength == 50
MaxPlayers == 26
GoldTotal == 250
GoldMinNumPiles == 10
GoldMaxNumPiles == 30

(***************************************************************************)
(* Bounds of the model                                                     *)
(***************************************************************************)
\* number of datagrams the message loop is given
MaxMsgs == 4
\* number of distinct client addresses
NumAddrs == 2
\* the small values rand() is allowed to return (0..MaxRand)
MaxRand == 1
\* gold placement scans the map from column 0 .. MaxScanStart
MaxScanStart == 0
\* setup of the large room scans the map from column 0 .. MaxSetupStart
MaxSetupStart == 2
\* only the first MaxDrawPos calls of rand() in one handler may return a
\* value other than 0
MaxDrawPos == 2

\* the number of rock tiles of a map of the family of maps at most
MaxRock == 4

\* the number of datagrams the clients send on a map of the family
SightMsgs == 1

(***************************************************************************)
(* Characters                                                              *)
(***************************************************************************)
UpperLetters ==
  << "A","B","C","D","E","F","G","H","I","J","K","L","M",
     "N","O","P","Q","R","S","T","U","V","W","X","Y","Z" >>

LowerLetters ==
  << "a","b","c","d","e","f","g","h","i","j","k","l","m",
     "n","o","p","q","r","s","t","u","v","w","x","y","z" >>

Range(s) == { s[i] : i \in DOMAIN s }

AlphaChars == Range(UpperLetters) \cup Range(LowerLetters)

\* isalpha() in the C locale
isalpha(ch) == ch \in AlphaChars

\* isspace() in the C locale, on the characters the model uses
isspace(ch) == ch \in { " ", "\t", "\n", "\r" }

\* the sentinel grid_getchar returns outside the grid
Sentinel == "^"

(***************************************************************************)
(* grid.c                                                                  *)
(***************************************************************************)
\* grid_new: an nrow x ncol grid filled with ' '
grid_new(nrow, ncol) ==
  [ map |-> SubSeq([ k \in 1..(nrow * ncol) |-> " " ], 1, nrow * ncol),
    nrow |-> nrow, ncol |-> ncol ]

grid_nrow(grid) == grid.nrow

grid_ncol(grid) == grid.ncol

grid_getchar(grid, r, c) ==
  IF r >= 0 /\ r < grid.nrow /\ c >= 0 /\ c < grid.ncol
    THEN grid.map[r * grid.ncol + c + 1]
    ELSE Sentinel

\* grid_update whose test of the column reads c <= ncol
grid_update_colInclusive(grid, r, c, ch) ==
  IF r >= 0 /\ r < grid.nrow /\ c >= 0 /\ c <= grid.ncol
    THEN [ grid EXCEPT !.map[r * grid.ncol + c + 1] = ch ]
    ELSE grid

grid_update(grid, r, c, ch) ==
  IF r >= 0 /\ r < grid.nrow /\ c >= 0 /\ c < grid.ncol
    THEN [ grid EXCEPT !.map[r * grid.ncol + c + 1] = ch ]
    ELSE grid

grid_isPlayer(grid, r, c) ==
  LET ch == grid_getchar(grid, r, c)
  IN isalpha(ch) \/ ch = "@"

\* grid_isBlockable for which a gold pile stops a ray
grid_isBlockable_goldBlocks(grid, r, c) ==
  LET ch == grid_getchar(grid, r, c)
  IN ch # "." /\ ~ (isalpha(ch) \/ ch = "@")

\* the three tests read the same cell: it is read once here
grid_isBlockable(grid, r, c) ==
  LET ch == grid_getchar(grid, r, c)
  IN ch # "." /\ ch # "*" /\ ~ (isalpha(ch) \/ ch = "@")

grid_isEmptyRoomSpot(grid, r, c) == grid_getchar(grid, r, c) = "."

grid_isGold(grid, r, c) == grid_getchar(grid, r, c) = "*"

grid_isBoundary(grid, r, c) ==
  LET ch == grid_getchar(grid, r, c)
  IN ch = "|" \/ ch = "-" \/ ch = "+"

grid_isRock(grid, r, c) == grid_getchar(grid, r, c) = " "

\* grid_canMoveTo without the test of the sentinel: a tile outside the grid
\* passes
grid_canMoveTo_noSentinel(grid, r, c) ==
  /\ ~ grid_isBoundary(grid, r, c)
  /\ ~ grid_isRock(grid, r, c)

\* grid_canMoveTo without the test of the boundary characters
grid_canMoveTo_rockOnly(grid, r, c) ==
  /\ ~ grid_isRock(grid, r, c)
  /\ grid_getchar(grid, r, c) # Sentinel

grid_canMoveTo(grid, r, c) ==
  /\ ~ grid_isBoundary(grid, r, c)
  /\ ~ grid_isRock(grid, r, c)
  /\ grid_getchar(grid, r, c) # Sentinel

\* floor of num/den for den # 0 (the C code truncates a non-negative float)
\* the quotient truncated toward zero: (int) applied before pc or pr is added
FloorDiv_truncated(num, den) ==
  LET n == IF num < 0 THEN 0 - num ELSE num
      d == IF den < 0 THEN 0 - den ELSE den
  IN IF (num < 0) = (den < 0) THEN n \div d ELSE 0 - (n \div d)

FloorDiv(num, den) ==
  IF den > 0 THEN num \div den ELSE (0 - num) \div (0 - den)

\* is num/den an integer
Divides(num, den) ==
  IF den > 0 THEN num % den = 0 ELSE (0 - num) % (0 - den) = 0

\* grid_isVisible: the ray walk from (pr,pc) to (r,c) on the master grid
grid_isVisible(master, pr, pc, r, c) ==
  LET r1 == IF pr > r THEN r ELSE pr
      r2 == IF pr > r THEN pr ELSE r
      c1 == IF pc > c THEN c ELSE pc
      c2 == IF pc > c THEN pc ELSE c
      drow == r - pr
      dcol == c - pc
      sameRow == drow = 0 =>
        \A j \in (c1 + 1)..(c2 - 1) : ~ grid_isBlockable(master, pr, j)
      sameCol == dcol = 0 =>
        \A i \in (r1 + 1)..(r2 - 1) : ~ grid_isBlockable(master, i, pc)
      rowWalk ==
        \A i \in (r1 + 1)..(r2 - 1) :
          LET num == (i - pr) * dcol
              ic == FloorDiv(num, drow) + pc
          IN IF Divides(num, drow)
               THEN ~ grid_isBlockable(master, i, ic)
               ELSE ~ ( grid_isBlockable(master, i, ic)
                        /\ grid_isBlockable(master, i, ic + 1) )
      colWalk ==
        \A j \in (c1 + 1)..(c2 - 1) :
          LET num == (j - pc) * drow
              ir == FloorDiv(num, dcol) + pr
          IN IF Divides(num, dcol)
               THEN ~ grid_isBlockable(master, ir, j)
               ELSE ~ ( grid_isBlockable(master, ir, j)
                        /\ grid_isBlockable(master, ir + 1, j) )
  IN sameRow /\ sameCol /\ rowWalk /\ colWalk

\* an array of n characters given by its elements (SubSeq has the array
\* evaluated once, when it is built, and not at every later read)
Array(f, n) == SubSeq(f, 1, n)

\* grid_clean that leaves the known grid as it is
grid_clean_nothing(raw, known) == known

\* grid_clean that blanks the tiles of gold and players instead of reading
\* the raw grid
grid_clean_blank(raw, known) ==
  [ known EXCEPT !.map =
      Array([ k \in DOMAIN known.map |->
                LET r == (k - 1) \div known.ncol
                    c == (k - 1) % known.ncol
                IN IF grid_isGold(known, r, c) \/ grid_isPlayer(known, r, c)
                     THEN " "
                     ELSE known.map[k] ],
            Len(known.map)) ]

\* grid_clean: gold and players of the known grid go back to the raw tile
grid_clean(raw, known) ==
  [ known EXCEPT !.map =
      Array([ k \in DOMAIN known.map |->
                LET r == (k - 1) \div known.ncol
                    c == (k - 1) % known.ncol
                IN IF grid_isGold(known, r, c) \/ grid_isPlayer(known, r, c)
                     THEN grid_getchar(raw, r, c)
                     ELSE known.map[k] ],
            Len(known.map)) ]

\* the copy of grid_setVisibility if it skipped every blocking tile, not
\* only rock
CopyVisible_roomOnly(master, known, pr, pc) ==
  [ known EXCEPT !.map =
      Array([ k \in DOMAIN known.map |->
                LET r == (k - 1) \div known.ncol
                    c == (k - 1) % known.ncol
                IN IF /\ r < master.nrow /\ c < master.ncol
                      /\ ~ grid_isBlockable(master, r, c)
                      /\ grid_isVisible(master, pr, pc, r, c)
                     THEN grid_getchar(master, r, c)
                     ELSE known.map[k] ],
            Len(known.map)) ]

\* the loop of grid_setVisibility over the tiles of the master grid: every
\* visible tile that is not rock is copied to the known grid
CopyVisible(master, known, pr, pc) ==
  [ known EXCEPT !.map =
      Array([ k \in DOMAIN known.map |->
                LET r == (k - 1) \div known.ncol
                    c == (k - 1) % known.ncol
                IN IF /\ r < master.nrow /\ c < master.ncol
                      /\ ~ grid_isRock(master, r, c)
                      /\ grid_isVisible(master, pr, pc, r, c)
                     THEN grid_getchar(master, r, c)
                     ELSE known.map[k] ],
            Len(known.map)) ]

\* grid_setVisibility: clean, copy every visible non-rock tile, draw '@'
grid_setVisibility(master, raw, known, pr, pc) ==
  grid_update(CopyVisible(master, grid_clean(raw, known), pr, pc), pr, pc, "@")

\* grid_toString: the rows, each followed by a newline
grid_toString(grid) ==
  Array([ k \in 1..(grid.nrow * grid.ncol + grid.nrow) |->
            LET r == (k - 1) \div (grid.ncol + 1)
                c == (k - 1) % (grid.ncol + 1)
            IN IF c = grid.ncol THEN "\n" ELSE grid_getchar(grid, r, c) ],
        grid.nrow * grid.ncol + grid.nrow)


\* the character stream grid_load reads with fgetc: the lines, each followed
\* by a newline
RECURSIVE FileStream(_)
FileStream(lines) ==
  IF lines = << >> THEN << >>
  ELSE Head(lines) \o << "\n" >> \o FileStream(Tail(lines))

\* the loop of grid_load: n characters from position pos of the stream, one
\* newline skipped before each
RECURSIVE LoadChars(_, _, _)
LoadChars(stream, pos, n) ==
  IF n = 0 THEN << >>
  ELSE LET p == IF pos <= Len(stream) /\ stream[pos] = "\n" THEN pos + 1 ELSE pos
           ch == IF p <= Len(stream) THEN stream[p] ELSE "EOF"
       IN << ch >> \o LoadChars(stream, p + 1, n - 1)

\* grid_load: rows = number of lines, columns = width of the first line
grid_load(lines) ==
  LET nrow == Len(lines)
      ncol == Len(lines[1])
  IN [ map |-> LoadChars(FileStream(lines), 1, nrow * ncol),
       nrow |-> nrow, ncol |-> ncol ]

(***************************************************************************)
(* The map file of the model: a room of one row of floor that reaches the  *)
(* edge of the map on three sides; south of it rock, a wall segment, a     *)
(* passage and a second wall segment.                                      *)
(***************************************************************************)
MapFile ==
  << << ".", ".", ".", ".", ".", ".", ".", ".", ".", ".", ".", "." >>,
     << " ", " ", " ", " ", " ", " ", " ", " ", " ", "-", "#", "|" >> >>

(***************************************************************************)
(* Addresses (addr_t) and messages                                         *)
(***************************************************************************)
\* the value of sin_family of an Internet address
AF_INET == 2

\* addr_t is struct sockaddr_in: family is sin_family, peer stands for the
\* pair (sin_port, sin_addr.s_addr).  The addresses of the clients:
Addrs == { [ family |-> AF_INET, peer |-> h ] : h \in 1..NumAddrs }

\* message_noAddr(): family 0, port 0, address 0
message_noAddr == [ family |-> 0, peer |-> 0 ]

message_isAddr(addr) == addr.family = AF_INET

message_eqAddr(a, b) == a.family = b.family /\ a.peer = b.peer

\* the values rand() returns in the model
RandVals == { k * (GoldTotal - GoldMinNumPiles) : k \in 0..MaxRand }


(***************************************************************************)
(* server.c: the operations.  A world W is the record (GAME, sent): the    *)
(* global struct game and the datagrams the running handler has sent so    *)
(* far, in order.                                                          *)
(***************************************************************************)
message_send(W, to, msg) ==
  [ W EXCEPT !.sent = Append(@, [ to |-> to, msg |-> msg ]) ]

\* sprintf(message, "GOLD %d %d %d", n, p, r)
GoldMsg(n, p, r) == [ verb |-> "GOLD", n |-> n, p |-> p, r |-> r ]

\* sprintf(message, "DISPLAY\n%s", disp_string)
DisplayMsg(text) == [ verb |-> "DISPLAY", text |-> text ]

QuitMsg(text) == [ verb |-> "QUIT", text |-> text ]

\* the body of the loop of server_update_all_clients for player i: GOLD,
\* justCollected = 0, the visibility pass on the player's seenGrid, DISPLAY
\* the loop body without the statement player->justCollected = 0
UpdatePlayer_keepJustCollected(W, i) ==
  LET G == W.GAME
      player == G.players[i]
      W1 == message_send(W, player.IP,
              GoldMsg(player.justCollected, player.gold, G.goldLeft))
      W2 == [ W1 EXCEPT !.GAME.players[i].seenGrid =
                          grid_setVisibility(G.masterGrid, G.rawGrid, @,
                                             player.row, player.col) ]
  IN W2

UpdatePlayer(W, i) ==
  LET G == W.GAME
      player == G.players[i]
      W1 == message_send(W, player.IP,
              GoldMsg(player.justCollected, player.gold, G.goldLeft))
      W2 == [ W1 EXCEPT !.GAME.players[i].justCollected = 0,
                        !.GAME.players[i].seenGrid =
                          grid_setVisibility(G.masterGrid, G.rawGrid, @,
                                             player.row, player.col) ]
  IN W2

\* sprintf and message_send of the DISPLAY of player i's seenGrid
SendDisplay(W, i) ==
  message_send(W, W.GAME.players[i].IP,
               DisplayMsg(grid_toString(W.GAME.players[i].seenGrid)))

\* the loop of server_update_all_clients over the player table, from player i
RECURSIVE UpdatePlayers(_, _)
UpdatePlayers(W, i) ==
  IF i > W.GAME.numPlayer THEN W
  ELSE UpdatePlayers(SendDisplay(UpdatePlayer(W, i), i), i + 1)

\* server_update_all_clients without the part for the spectator
server_update_all_clients_playersOnly(W) == UpdatePlayers(W, 1)

server_update_all_clients(W) ==
  LET G == W.GAME
      W1 == IF message_isAddr(G.spectatorIP)
              THEN message_send(
                     message_send(W, G.spectatorIP, GoldMsg(0, 0, G.goldLeft)),
                     G.spectatorIP, DisplayMsg(grid_toString(G.masterGrid)))
              ELSE W
  IN UpdatePlayers(W1, 1)

\* pickup_gold that draws from 1 .. goldLeft, whatever piles are left
pickup_gold_upToAll(G, i, rnd) ==
  LET gold == IF G.GoldNumPilesLeft # 1 THEN (rnd % G.goldLeft) + 1
              ELSE G.goldLeft
  IN [ G EXCEPT !.players[i].gold = @ + gold,
                !.players[i].justCollected = gold,
                !.goldCollected = @ + gold,
                !.goldLeft = @ - gold,
                !.GoldNumPilesLeft = @ - 1 ]

\* pickup_gold that leaves the number of piles as it is
pickup_gold_keepsPiles(G, i, rnd) ==
  LET maxPerPile == G.goldLeft - G.GoldNumPilesLeft + 1
      gold == IF G.GoldNumPilesLeft # 1 THEN (rnd % maxPerPile) + 1
              ELSE G.goldLeft
  IN [ G EXCEPT !.players[i].gold = @ + gold,
                !.players[i].justCollected = gold,
                !.goldCollected = @ + gold,
                !.goldLeft = @ - gold ]

\* pickup_gold that forgets the purse of the player
pickup_gold_noPurse(G, i, rnd) ==
  LET maxPerPile == G.goldLeft - G.GoldNumPilesLeft + 1
      gold == IF G.GoldNumPilesLeft # 1 THEN (rnd % maxPerPile) + 1
              ELSE G.goldLeft
  IN [ G EXCEPT !.players[i].justCollected = gold,
                !.goldCollected = @ + gold,
                !.goldLeft = @ - gold,
                !.GoldNumPilesLeft = @ - 1 ]

\* pickup_gold that draws the size of the last pile like that of any other
pickup_gold_noLastPile(G, i, rnd) ==
  LET maxPerPile == G.goldLeft - G.GoldNumPilesLeft + 1
      gold == (rnd % maxPerPile) + 1
  IN [ G EXCEPT !.players[i].gold = @ + gold,
                !.players[i].justCollected = gold,
                !.goldCollected = @ + gold,
                !.goldLeft = @ - gold,
                !.GoldNumPilesLeft = @ - 1 ]

\* pickup_gold that draws from 0 .. maxPerPile - 1: minPerPile is not added
pickup_gold_noMin(G, i, rnd) ==
  LET maxPerPile == G.goldLeft - G.GoldNumPilesLeft + 1
      gold == IF G.GoldNumPilesLeft # 1 THEN rnd % maxPerPile
              ELSE G.goldLeft
  IN [ G EXCEPT !.players[i].gold = @ + gold,
                !.players[i].justCollected = gold,
                !.goldCollected = @ + gold,
                !.goldLeft = @ - gold,
                !.GoldNumPilesLeft = @ - 1 ]

\* pickup_gold: rnd is the value rand() returns when the draw is made
pickup_gold(G, i, rnd) ==
  LET minPerPile == 1
      maxPerPile == G.goldLeft - G.GoldNumPilesLeft + 1
      gold == IF G.GoldNumPilesLeft # 1
                THEN (rnd % (maxPerPile - minPerPile + 1)) + minPerPile
                ELSE G.goldLeft
  IN [ G EXCEPT !.players[i].gold = @ + gold,
                !.players[i].justCollected = gold,
                !.goldCollected = @ + gold,
                !.goldLeft = @ - gold,
                !.GoldNumPilesLeft = @ - 1 ]

\* the first player of the table standing on (row, col), 0 if there is none
FirstPlayerAt(G, row, col) ==
  LET at == { k \in 1..G.numPlayer :
                G.players[k].row = row /\ G.players[k].col = col }
  IN IF at = {} THEN 0 ELSE CHOOSE k \in at : \A m \in at : k <= m

\* the two statements that put the raw tile back on the master grid at
\* (row, col): raw_char = grid_getchar(rawGrid, ..); grid_update(masterGrid, ..)
\* the same with the two statements left out: the tile keeps what it shows
restore_raw_forgotten(G, row, col) == G.masterGrid

restore_raw(G, row, col) ==
  grid_update(G.masterGrid, row, col, grid_getchar(G.rawGrid, row, col))

\* player_move of player i to (new_row, new_col); the result is the new world,
\* the value player_move returns (TRUE: cannot move) and whether rand() was
\* called
player_move(W, i, new_row, new_col, rnd) ==
  LET G == W.GAME
      player == G.players[i]
      old_row == player.row
      old_col == player.col
  IN
  IF grid_canMoveTo(G.masterGrid, new_row, new_col) THEN
    IF grid_isPlayer(G.masterGrid, new_row, new_col) THEN
      LET j == FirstPlayerAt(G, new_row, new_col)
      IN IF j = 0
           THEN [ W |-> W, ret |-> FALSE, drew |-> FALSE ]
           ELSE
             LET another == G.players[j]
                 m1 == grid_update(G.masterGrid, old_row, old_col, another.alias)
                 G1 == [ G EXCEPT !.players[j].row = old_row,
                                  !.players[j].col = old_col,
                                  !.masterGrid = m1 ]
                 \* player and another_player may be the same struct
                 m2 == grid_update(m1, new_row, new_col, player.alias)
                 G2 == [ G1 EXCEPT !.players[i].row = new_row,
                                   !.players[i].col = new_col,
                                   !.masterGrid = m2 ]
             IN [ W |-> server_update_all_clients([ W EXCEPT !.GAME = G2 ]),
                  ret |-> FALSE, drew |-> FALSE ]
    ELSE IF grid_isGold(G.masterGrid, new_row, new_col) THEN
      LET m1 == restore_raw(G, old_row, old_col)
          m2 == grid_update(m1, new_row, new_col, player.alias)
          G1 == [ G EXCEPT !.players[i].row = new_row,
                           !.players[i].col = new_col,
                           !.masterGrid = m2 ]
          G2 == pickup_gold(G1, i, rnd)
      IN [ W |-> server_update_all_clients([ W EXCEPT !.GAME = G2 ]),
           ret |-> FALSE, drew |-> G.GoldNumPilesLeft # 1 ]
    ELSE
      LET m1 == restore_raw(G, old_row, old_col)
          m2 == grid_update(m1, new_row, new_col, player.alias)
          G1 == [ G EXCEPT !.players[i].row = new_row,
                           !.players[i].col = new_col,
                           !.masterGrid = m2 ]
      IN [ W |-> server_update_all_clients([ W EXCEPT !.GAME = G1 ]),
           ret |-> FALSE, drew |-> FALSE ]
  ELSE [ W |-> W, ret |-> TRUE, drew |-> FALSE ]


\* isgraph() and isblank() in the C locale, on the characters the model uses
GraphChars ==
  AlphaChars \cup { "0", "1", "2", "3", "4", "5", "6", "7", "8", "9",
                    "_", "-", ".", "!", "?", "*", "#", "@", "^", "+", "|" }

isgraph(ch) == ch \in GraphChars

\* isblank() of an int: true of the codes of tab and space
isblank(code) == code \in { 9, 32 }

helper_nameIsEmpty(name) == \A k \in 1..Len(name) : isspace(name[k])

\* the loop of handlePlay that fills realName: byte k of the name, for
\* k < MaxNameLength.  The C test is
\*   isgraph(name[i]) == false && isblank(name[i] == false)
\* where name[i] == false is the int 0 for every byte of a C string.
StoredName(name) ==
  [ k \in 1..(IF Len(name) < MaxNameLength THEN Len(name) ELSE MaxNameLength) |->
      IF ~ isgraph(name[k]) /\ isblank(0) THEN "_" ELSE name[k] ]

\* handlePlay; (row, col) is the cell server_drop_player ends on: its loop
\* redraws until the drawn cell is an empty room spot of the master grid
handlePlay(W, from, name, row, col) ==
  LET G == W.GAME
  IN
  IF G.numPlayer = MaxPlayers THEN
    [ W |-> message_send(W, from,
              QuitMsg("Game is full: no more players can join.")),
      ret |-> FALSE ]
  ELSE IF helper_nameIsEmpty(name) THEN
    [ W |-> message_send(W, from,
              QuitMsg("Sorry: you must provide player's name.")),
      ret |-> FALSE ]
  ELSE
    LET player == [ IP |-> from,
                    realName |-> StoredName(name),
                    alias |-> UpperLetters[G.numPlayer + 1],
                    gold |-> 0,
                    justCollected |-> 0,
                    row |-> row,
                    col |-> col,
                    seenGrid |-> grid_new(G.GridRow, G.GridCol) ]
        G1 == [ G EXCEPT !.players = Append(@, player),
                         !.numPlayer = @ + 1,
                         !.masterGrid = grid_update(@, row, col, player.alias) ]
        W1 == message_send([ W EXCEPT !.GAME = G1 ], from,
                           [ verb |-> "OK", alias |-> player.alias ])
        W2 == message_send(W1, from,
                           [ verb |-> "GRID", nrow |-> G.GridRow, ncol |-> G.GridCol ])
    IN [ W |-> server_update_all_clients(W2), ret |-> FALSE ]

\* handleSPECTATE that keeps the spectator it has: the sender is registered
\* only when no spectator is
handleSPECTATE_keepIncumbent(W, from) ==
  LET G == W.GAME
      W1 == IF message_isAddr(G.spectatorIP)
              THEN message_send(W, G.spectatorIP,
                     QuitMsg("You have been replaced by a new spectator."))
              ELSE [ W EXCEPT !.GAME.spectatorIP = from ]
      W3 == message_send(W1, from,
              [ verb |-> "GRID", nrow |-> G.GridRow, ncol |-> G.GridCol ])
  IN [ W |-> server_update_all_clients(W3), ret |-> FALSE ]

handleSPECTATE(W, from) ==
  LET G == W.GAME
      W1 == IF message_isAddr(G.spectatorIP)
              THEN message_send(W, G.spectatorIP,
                     QuitMsg("You have been replaced by a new spectator."))
              ELSE W
      W2 == [ W1 EXCEPT !.GAME.spectatorIP = from ]
      W3 == message_send(W2, from,
              [ verb |-> "GRID", nrow |-> G.GridRow, ncol |-> G.GridCol ])
  IN [ W |-> server_update_all_clients(W3), ret |-> FALSE ]

\* the loop of handleQUIT over the player table
RECURSIVE QuitPlayers(_, _, _)
QuitPlayers(W, IP, i) ==
  IF i > W.GAME.numPlayer THEN W
  ELSE
    LET G == W.GAME
        current == G.players[i]
    IN IF message_eqAddr(IP, current.IP)
         THEN
           LET W1 == message_send(W, IP, QuitMsg("Thanks for playing!"))
               W2 == [ W1 EXCEPT !.GAME.masterGrid =
                         restore_raw(G, current.row, current.col) ]
           IN QuitPlayers(W2, IP, i + 1)
         ELSE QuitPlayers(W, IP, i + 1)

\* handleQUIT without the loop over the player table
handleQUIT_spectatorOnly(W, IP) ==
  [ W |-> server_update_all_clients(
            IF message_eqAddr(W.GAME.spectatorIP, IP)
              THEN message_send(W, W.GAME.spectatorIP, QuitMsg("Thanks for watching!"))
              ELSE W),
    ret |-> FALSE ]

handleQUIT(W, IP) ==
  LET G == W.GAME
      W1 == IF message_eqAddr(G.spectatorIP, IP)
              THEN message_send(W, G.spectatorIP, QuitMsg("Thanks for watching!"))
              ELSE W
  IN [ W |-> server_update_all_clients(QuitPlayers(W1, IP, 1)), ret |-> FALSE ]

\* the direction of a movement key: (drow, dcol, run)
DirKeys ==
  [ h |-> << 0, -1 >>, l |-> << 0, 1 >>, j |-> << 1, 0 >>, k |-> << -1, 0 >>,
    y |-> << -1, -1 >>, u |-> << -1, 1 >>, b |-> << 1, -1 >>, n |-> << 1, 1 >>,
    H |-> << 0, -1 >>, L |-> << 0, 1 >>, J |-> << 1, 0 >>, K |-> << -1, 0 >>,
    Y |-> << -1, -1 >>, U |-> << -1, 1 >>, B |-> << 1, -1 >>, N |-> << 1, 1 >> ]

StepKeys == { "h", "l", "j", "k", "y", "u", "b", "n" }

RunKeys == { "H", "L", "J", "K", "Y", "U", "B", "N" }

\* the while loops of handleKEY: (row, col) are the handler's local
\* variables, rnds the values the coming calls of rand() return
RECURSIVE RunLoop(_, _, _, _, _, _, _)

\* the body of a run loop that a pickup ends
RunBody_pickupStops(m, i, row, col, drow, dcol, rnds) ==
  IF m.ret \/ m.drew THEN m.W
  ELSE RunLoop(m.W, i, row + drow, col + dcol, drow, dcol, rnds)

\* the loop body after the call of player_move in the loop test returned m
RunBody(m, i, row, col, drow, dcol, rnds) ==
  IF m.ret THEN m.W
  ELSE RunLoop(m.W, i, row + drow, col + dcol, drow, dcol,
               IF m.drew /\ rnds # << >> THEN Tail(rnds) ELSE rnds)

RunLoop(W, i, row, col, drow, dcol, rnds) ==
  RunBody(player_move(W, i, row + drow, col + dcol,
                      IF rnds = << >> THEN 0 ELSE Head(rnds)),
          i, row, col, drow, dcol, rnds)

\* the player a KEY acts on: the last player of the table with that address
\* (the search loop does not stop at the first), 0 if there is none
PlayerOf(G, from) ==
  LET mine == { k \in 1..G.numPlayer : message_eqAddr(from, G.players[k].IP) }
  IN IF mine = {} THEN 0 ELSE CHOOSE k \in mine : \A m \in mine : k >= m

\* the end of handleKEY with the test of GoldNumPilesLeft inverted
KeyReturn_pilesLeft(W) == [ W |-> W, ret |-> W.GAME.GoldNumPilesLeft # 0 ]

\* the end of handleKEY without the test of GoldNumPilesLeft
KeyReturn_never(W) == [ W |-> W, ret |-> FALSE ]

\* the end of handleKEY: true iff no pile is left
KeyReturn(W) == [ W |-> W, ret |-> W.GAME.GoldNumPilesLeft = 0 ]

\* handleKEY whose default branch only logs the key
handleKEY_defaultLogsOnly(W, from, KEY, rnds) ==
  IF KEY = "Q" THEN [ W |-> handleQUIT(W, from).W, ret |-> FALSE ]
  ELSE
    LET G == W.GAME
        i == PlayerOf(G, from)
    IN
    IF i = 0 THEN [ W |-> W, ret |-> FALSE ]
    ELSE
      LET row == G.players[i].row
          col == G.players[i].col
      IN KeyReturn(
           IF KEY \in StepKeys
             THEN player_move(W, i, row + DirKeys[KEY][1], col + DirKeys[KEY][2],
                              IF rnds = << >> THEN 0 ELSE Head(rnds)).W
           ELSE IF KEY \in RunKeys
             THEN RunLoop(W, i, row, col, DirKeys[KEY][1], DirKeys[KEY][2], rnds)
           ELSE W)

handleKEY(W, from, KEY, rnds) ==
  IF KEY = "Q" THEN [ W |-> handleQUIT(W, from).W, ret |-> FALSE ]
  ELSE
    LET G == W.GAME
        i == PlayerOf(G, from)
    IN
    IF i = 0 THEN [ W |-> W, ret |-> FALSE ]
    ELSE
      LET row == G.players[i].row
          col == G.players[i].col
      IN KeyReturn(
           IF KEY \in StepKeys
             THEN player_move(W, i, row + DirKeys[KEY][1], col + DirKeys[KEY][2],
                              IF rnds = << >> THEN 0 ELSE Head(rnds)).W
           ELSE IF KEY \in RunKeys
             THEN RunLoop(W, i, row, col, DirKeys[KEY][1], DirKeys[KEY][2], rnds)
           ELSE message_send(W, G.players[i].IP,
                  [ verb |-> "ERROR", text |-> "Unknown Keystroke: ", key |-> KEY ]))

\* one line of the scoreboard of game_over: alias, the purse as the chain of
\* tests formats it (lead spaces, digits, three spaces), real name, newline
ScoreLine(player) ==
  LET gold == player.gold
      field == IF gold = 0 THEN << 5, 0 >>
               ELSE IF gold \div 10 = 0 THEN << 5, gold >>
               ELSE IF gold \div 100 = 0 THEN << 4, gold >>
               ELSE IF gold \div 1000 = 0 THEN << 3, gold >>
               ELSE << >>
  IN [ alias |-> player.alias, field |-> field, realName |-> player.realName ]

\* game_over: the scoreboard to the spectator, then to every player of the table
game_over(W) ==
  LET G == W.GAME
      message == [ verb |-> "QUIT", text |-> "GAME OVER:",
                   lines |-> [ k \in 1..G.numPlayer |-> ScoreLine(G.players[k]) ] ]
      W1 == IF message_isAddr(G.spectatorIP)
              THEN message_send(W, G.spectatorIP, message)
              ELSE W
  IN [ W1 EXCEPT !.sent =
         @ \o [ k \in 1..G.numPlayer |-> [ to |-> G.players[k].IP, msg |-> message ] ] ]


\* the loop of server_drop_gold without the inner while: every draw is taken
RECURSIVE DropPiles_anyTile(_, _, _)
DropPiles_anyTile(master, draws, left) ==
  IF left = 0 \/ draws = << >> THEN master
  ELSE DropPiles_anyTile(grid_update(master, Head(draws)[1] % master.nrow,
                                     Head(draws)[2] % master.ncol, "*"),
                         Tail(draws), left - 1)

\* the loop of server_drop_gold: draws is the sequence of cells
\* (rand() % GridRow, rand() % GridCol) drawn, left the number of piles still
\* to place; a draw that is not an empty room spot is drawn again
RECURSIVE DropPiles(_, _, _)
DropPiles(master, draws, left) ==
  IF left = 0 \/ draws = << >> THEN master
  ELSE LET row == Head(draws)[1] % master.nrow
           col == Head(draws)[2] % master.ncol
       IN IF grid_isEmptyRoomSpot(master, row, col)
            THEN DropPiles(grid_update(master, row, col, "*"), Tail(draws), left - 1)
            ELSE DropPiles(master, Tail(draws), left)

\* main up to the message loop: parseArgs loads the two grids,
\* server_drop_gold draws the number of piles (rnd) and places them
server_drop_gold(lines, rnd, draws) ==
  LET master == grid_load(lines)
      piles == (rnd % (GoldMaxNumPiles - GoldMinNumPiles)) + GoldMinNumPiles
  IN [ masterGrid |-> DropPiles(master, draws, piles),
       rawGrid |-> grid_load(lines),
       GridRow |-> grid_nrow(master),
       GridCol |-> grid_ncol(master),
       GoldNumPilesLeft |-> piles,
       goldCollected |-> 0,
       goldLeft |-> GoldTotal,
       players |-> << >>,
       numPlayer |-> 0,
       spectatorIP |-> message_noAddr ]

\* the draws of the model: every cell of the map once, column by column,
\* starting with column start
ScanDraws(lines, start) ==
  LET nrow == Len(lines)
      ncol == Len(lines[1])
  IN [ k \in 1..(nrow * ncol) |->
         << (k - 1) % nrow, (start + ((k - 1) \div nrow)) % ncol >> ]

(***************************************************************************)
(* Datagrams the clients send                                              *)
(***************************************************************************)
PlayPrefix == << "P", "L", "A", "Y", " " >>

SpectatePrefix == << "S", "P", "E", "C", "T", "A", "T", "E" >>

KeyPrefix == << "K", "E", "Y", " " >>

\* strncmp(msg, prefix, strlen(prefix)) == 0
StartsWith(msg, prefix) ==
  Len(msg) >= Len(prefix) /\ SubSeq(msg, 1, Len(prefix)) = prefix

\* msg + strlen(prefix)
After(msg, prefix) == SubSeq(msg, Len(prefix) + 1, Len(msg))

Names == { << "B", "o" >>, << " ", " " >>, << >> }

Keys == StepKeys \cup RunKeys \cup { "Q", "x" }

Messages ==
  { PlayPrefix \o name : name \in Names }
    \cup { SpectatePrefix }
    \cup { KeyPrefix \o << key >> : key \in Keys }
    \cup { << "H", "I" >> }

(***************************************************************************)
(* server.c: the command line                                              *)
(***************************************************************************)
Digits == << "0", "1", "2", "3", "4", "5", "6", "7", "8", "9" >>

IsDigit(ch) == \E d \in 1..Len(Digits) : Digits[d] = ch

DigitValue(ch) == (CHOOSE d \in 1..Len(Digits) : Digits[d] = ch) - 1

\* the value of the leading decimal digits of str, acc being the value so far
RECURSIVE atoiFrom(_, _, _)
atoiFrom(str, i, acc) ==
  IF i > Len(str) \/ ~IsDigit(str[i]) THEN acc
  ELSE atoiFrom(str, i + 1, acc * 10 + DigitValue(str[i]))

\* the index of the first character of str from i on that is not white
\* space (Len(str) + 1 when there is none)
RECURSIVE SkipSpace(_, _)
SkipSpace(str, i) ==
  IF i > Len(str) \/ ~ isspace(str[i]) THEN i ELSE SkipSpace(str, i + 1)

\* atoi: leading white space is skipped, then an optional sign, then the
\* leading digits; 0 when there are none.  The arguments of the model have
\* values an int holds.
atoi(str) ==
  LET i == SkipSpace(str, 1)
  IN IF i <= Len(str) /\ str[i] = "-" THEN 0 - atoiFrom(str, i + 1, 0)
     ELSE IF i <= Len(str) /\ str[i] = "+" THEN atoiFrom(str, i + 1, 0)
     ELSE atoiFrom(str, i, 0)

\* GAME has static storage and nothing assigns GAME.seed
GAME_seed == 0

\* parseArgs on argv[2..] = args in a process whose id is pid: the exit code
\* (0 when the server goes on) and the argument of srand
parseArgs(args, pid) ==
  IF Len(args) = 0 THEN [ exit |-> 0, srand |-> pid ]
  ELSE IF Len(args) = 1 THEN
    LET seed == atoi(args[1]) IN
    IF seed <= 0 THEN [ exit |-> 0 - 2, srand |-> 0 ]
    ELSE [ exit |-> 0, srand |-> GAME_seed ]
  ELSE [ exit |-> 0 - 3, srand |-> 0 ]

\* the command line the servers of the specifications are started with
Args == << << "7" >> >>

Pids == { 4242 }

(***************************************************************************)
(* State                                                                   *)
(***************************************************************************)
VARIABLES
  GAME,      \* struct game GAME
  sent,      \* the datagrams sent by the last handler, in order
  loop,      \* where main is: "running" (in message_loop), "ended" (the
             \* loop has returned), "done" (game_over has run), "hung",
             \* "killed" (the process was aborted in handleMessage)
  last,      \* history: the datagram a handler was run on last, (from, message)
  quits,     \* history: quits[i] is the number of Q datagrams of player i's
             \* address handled since player i joined
  budget,    \* number of datagrams the clients still send
  proc       \* the process: argv[2..] and the argument srand was called with

vars == << GAME, sent, loop, last, quits, budget, proc >>

NoDatagram == [ from |-> message_noAddr, message |-> << >> ]

\* main: parseArgs has returned, so it did not exit
Launch(args) ==
  \E pid \in Pids :
    /\ parseArgs(args, pid).exit = 0
    /\ proc = [ argv |-> args, srand |-> parseArgs(args, pid).srand ]

Init ==
  /\ \E rnd \in RandVals, start \in 0..MaxScanStart :
       GAME = server_drop_gold(MapFile, rnd, ScanDraws(MapFile, start))
  /\ sent = << >>
  /\ loop = "running"
  /\ last = NoDatagram
  /\ quits = << >>
  /\ budget = MaxMsgs
  /\ Launch(Args)

\* message_loop hands one datagram to handleMessage
Receive ==
  loop = "running" /\ budget > 0 /\ budget' = budget - 1 /\ UNCHANGED proc

\* the unit in which the stack pointer moves when the array msg is made:
\* the array gets the next multiple of StackAlign bytes
StackAlign == 16

\* handleMessage opens with  char msg[strlen(message)]; strcpy(msg, message);
\* the terminating 0 is written one byte past the end of msg, which is
\* undefined.  What builds of the server do with it:
\*   "intact"    the byte lands where nothing is read again;
\*   "clobbered" the byte lands on the first byte of the parameter from,
\*               whose sin_family becomes 0 (only when the array fills its
\*               allocation: strlen(message) is a multiple of StackAlign);
\*   "killed"    the copy is checked (_FORTIFY_SOURCE, AddressSanitizer)
\*               and the process is aborted inside handleMessage.
CopyOutcomes(message) ==
  { "intact", "killed" }
    \cup (IF Len(message) % StackAlign = 0 THEN { "clobbered" } ELSE {})

\* the parameter from as the handlers read it after the copy
Sender(from, outcome) ==
  IF outcome = "clobbered" THEN [ from EXCEPT !.family = 0 ] ELSE from

\* the process is aborted in the copy: nothing is sent, no handler runs
\* (the datagram is not handled), and no further datagram is received
Killed ==
  /\ loop' = "killed"
  /\ sent' = << >>
  /\ UNCHANGED << GAME, last, quits >>

\* the state a handler leaves: res is (W, ret), sender the address the
\* handler had as from; the loop ends iff ret
Return(res, sender, from, message) ==
  /\ GAME' = res.W.GAME
  /\ sent' = res.W.sent
  /\ loop' = IF res.ret THEN "ended" ELSE "running"
  /\ last' = [ from |-> from, message |-> message ]
  /\ quits' =
       [ k \in 1..res.W.GAME.numPlayer |->
           (IF k <= Len(quits) THEN quits[k] ELSE 0)
           + (IF /\ StartsWith(message, KeyPrefix \o << "Q" >>)
                 /\ message_eqAddr(sender, res.W.GAME.players[k].IP)
                THEN 1 ELSE 0) ]

World == [ GAME |-> GAME, sent |-> << >> ]

\* the tiles server_drop_player would take if it tested grid_canMoveTo
EmptyRoomSpots_canMoveTo(G) ==
  { rc \in (0..(G.GridRow - 1)) \X (0..(G.GridCol - 1)) :
      grid_canMoveTo(G.masterGrid, rc[1], rc[2]) }

EmptyRoomSpots(G) ==
  { rc \in (0..(G.GridRow - 1)) \X (0..(G.GridCol - 1)) :
      grid_isEmptyRoomSpot(G.masterGrid, rc[1], rc[2]) }

\* handleMessage, the branch "PLAY "
Play(from, message) ==
  /\ Receive
  /\ StartsWith(message, PlayPrefix)
  /\ \E outcome \in CopyOutcomes(message) :
       LET name == After(message, PlayPrefix)
           admitted == GAME.numPlayer # MaxPlayers /\ ~ helper_nameIsEmpty(name)
       IN IF outcome = "killed" THEN Killed
          ELSE IF admitted /\ EmptyRoomSpots(GAME) = {}
            THEN \* server_drop_player never finds an empty room spot
                 \* it is called before the first message_send
                 /\ loop' = "hung"
                 /\ sent' = << >>
                 /\ last' = [ from |-> from, message |-> message ]
                 /\ UNCHANGED << GAME, quits >>
            ELSE \E rc \in IF admitted THEN EmptyRoomSpots(GAME) ELSE { << 0, 0 >> } :
                   Return(handlePlay(World, Sender(from, outcome), name, rc[1], rc[2]),
                          Sender(from, outcome), from, message)

\* handleMessage, the branch "SPECTATE"
Spectate(from, message) ==
  /\ Receive
  /\ ~ StartsWith(message, PlayPrefix)
  /\ StartsWith(message, SpectatePrefix)
  /\ \E outcome \in CopyOutcomes(message) :
       IF outcome = "killed" THEN Killed
       ELSE Return(handleSPECTATE(World, Sender(from, outcome)),
                   Sender(from, outcome), from, message)

\* the number of gold piles on the way from (row, col) in direction
\* (drow, dcol), at most steps tiles far: the number of draws a key can make
RECURSIVE GoldAhead(_, _, _, _, _, _)
GoldAhead(master, row, col, drow, dcol, steps) ==
  IF steps = 0 \/ ~ grid_canMoveTo(master, row + drow, col + dcol) THEN 0
  ELSE (IF grid_isGold(master, row + drow, col + dcol) THEN 1 ELSE 0)
       + GoldAhead(master, row + drow, col + dcol, drow, dcol, steps - 1)

NumDraws(G, from, KEY) ==
  LET i == PlayerOf(G, from)
  IN IF i = 0 \/ KEY \notin (StepKeys \cup RunKeys) THEN 0
     ELSE GoldAhead(G.masterGrid, G.players[i].row, G.players[i].col,
                    DirKeys[KEY][1], DirKeys[KEY][2],
                    IF KEY \in StepKeys THEN 1 ELSE G.GridRow + G.GridCol)

\* the values the n calls of rand() of one handler return: at most one of
\* them is not 0 (after a draw that is not 0 every pile but the last holds
\* one nugget whatever rand() returns), and it is among the first MaxDrawPos
DrawSeqs(n) ==
  { [ k \in 1..n |-> IF k = p THEN rnd ELSE 0 ] :
      p \in 0..(IF n < MaxDrawPos THEN n ELSE MaxDrawPos), rnd \in RandVals }

\* handleMessage, the branch "KEY "
Key(from, message) ==
  /\ Receive
  /\ ~ StartsWith(message, PlayPrefix)
  /\ ~ StartsWith(message, SpectatePrefix)
  /\ StartsWith(message, KeyPrefix)
  /\ \E outcome \in CopyOutcomes(message) :
       LET KEY == Head(After(message, KeyPrefix))
       IN IF outcome = "killed" THEN Killed
          ELSE \E rnds \in DrawSeqs(NumDraws(GAME, Sender(from, outcome), KEY)) :
                 Return(handleKEY(World, Sender(from, outcome), KEY, rnds),
                        Sender(from, outcome), from, message)

\* handleMessage, the last branch: an invalid message is logged
Invalid(from, message) ==
  /\ Receive
  /\ ~ StartsWith(message, PlayPrefix)
  /\ ~ StartsWith(message, SpectatePrefix)
  /\ ~ StartsWith(message, KeyPrefix)
  /\ \E outcome \in CopyOutcomes(message) :
       IF outcome = "killed" THEN Killed
       ELSE /\ sent' = << >>
            /\ last' = [ from |-> from, message |-> message ]
            /\ UNCHANGED << GAME, loop, quits >>

\* main after message_loop has returned
GameOver ==
  /\ loop = "ended"
  /\ sent' = game_over(World).sent
  /\ loop' = "done"
  /\ UNCHANGED << GAME, last, quits, budget, proc >>

Next ==
  \/ \E from \in Addrs, message \in Messages : Play(from, message)
  \/ \E from \in Addrs, message \in Messages : Spectate(from, message)
  \/ \E from \in Addrs, message \in Messages : Key(from, message)
  \/ \E from \in Addrs, message \in Messages : Invalid(from, message)
  \/ GameOver

Spec == Init /\ [][Next]_vars

(***************************************************************************)
(* The same server with clients that only join, quit and take single      *)
(* steps, followed for one datagram more.                                  *)
(***************************************************************************)
QuitMessages ==
  { PlayPrefix \o << "B", "o" >> }
    \cup { KeyPrefix \o << key >> : key \in StepKeys \cup { "Q" } }

InitQuit ==
  /\ \E rnd \in RandVals, start \in 0..MaxScanStart :
       GAME = server_drop_gold(MapFile, rnd, ScanDraws(MapFile, start))
  /\ sent = << >>
  /\ loop = "running"
  /\ last = NoDatagram
  /\ quits = << >>
  /\ budget = MaxMsgs + 1
  /\ Launch(Args)

NextQuit ==
  \/ \E from \in Addrs, message \in QuitMessages : Play(from, message)
  \/ \E from \in Addrs, message \in QuitMessages : Key(from, message)

SpecQuit == InitQuit /\ [][NextQuit]_vars

(***************************************************************************)
(* The same server with clients whose datagrams fill the array msg of      *)
(* handleMessage: their length is StackAlign.  A PLAY of that length has a *)
(* name of StackAlign - 5 characters.  MaxMsgs datagrams do not end the    *)
(* game on this map.                                                       *)
(***************************************************************************)
\* the datagram m followed by the character c up to the length StackAlign
Fill(m, c) == m \o [ k \in 1..(StackAlign - Len(m)) |-> c ]

\* PLAY with a name of letters and PLAY with a name of blanks
CopyPlays == { Fill(PlayPrefix, "a"), Fill(PlayPrefix, " ") }

CopyNames == { After(message, PlayPrefix) : message \in CopyPlays }

CopyMessages ==
  { PlayPrefix \o << "B", "o" >> }
    \cup CopyPlays
    \cup { SpectatePrefix, Fill(SpectatePrefix, "x") }
    \cup { KeyPrefix \o << key >> : key \in { "l", "Q" } }
    \cup { Fill(KeyPrefix \o << key >>, "x") : key \in { "l", "Q" } }
    \cup { << "H", "I" >>, Fill(<< "H", "I" >>, "x") }

NextCopy ==
  \/ \E from \in Addrs, message \in CopyMessages : Play(from, message)
  \/ \E from \in Addrs, message \in CopyMessages : Spectate(from, message)
  \/ \E from \in Addrs, message \in CopyMessages : Key(from, message)
  \/ \E from \in Addrs, message \in CopyMessages : Invalid(from, message)

SpecCopy == Init /\ [][NextCopy]_vars

(***************************************************************************)
(* Properties.  A handler boundary is a state of the model: every action   *)
(* is one whole handler.                                                   *)
(***************************************************************************)
Players == 1..GAME.numPlayer

\* the step is one run of handleMessage that reached its dispatch: a
\* datagram was taken and the process was not aborted in the copy
Handled == budget' # budget /\ loop' # "killed"

\* player k is seated: it is in the table and no Q of its address was
\* handled since it joined
Seated(k) == quits[k] = 0

Position(G, k) == << G.players[k].row, G.players[k].col >>

Positions(G) == [ k \in 1..G.numPlayer |-> Position(G, k) ]

Purses(G) == [ k \in 1..G.numPlayer |-> G.players[k].gold ]

\* the gold ledger: piles_left, goldCollected, goldLeft
Ledger(G) == << G.GoldNumPilesLeft, G.goldCollected, G.goldLeft >>

\* the player table without the seen grids
Table(G) ==
  [ k \in 1..G.numPlayer |->
      << G.players[k].IP, G.players[k].alias, G.players[k].realName >> ]

RECURSIVE Sum(_)
Sum(s) == IF s = << >> THEN 0 ELSE Head(s) + Sum(Tail(s))

Tiles(G) == (0..(G.GridRow - 1)) \X (0..(G.GridCol - 1))

MasterAt(G, t) == grid_getchar(G.masterGrid, t[1], t[2])

RawAt(G, t) == grid_getchar(G.rawGrid, t[1], t[2])

KeyDatagram(from, key) == [ from |-> from, message |-> KeyPrefix \o << key >> ]

\* the tile a movement key leads player i to in one step
Target(G, i, key) ==
  << G.players[i].row + DirKeys[key][1], G.players[i].col + DirKeys[key][2] >>

\* rock, a wall segment, or a tile outside the grid
NonTraversable(G, t) ==
  \/ t[1] < 0 \/ t[1] >= G.GridRow \/ t[2] < 0 \/ t[2] >= G.GridCol
  \/ MasterAt(G, t) \in { " ", "|", "-", "+" }

\* C1: after any sequence of messages no two seated players stand on the
\* same tile.
C1_SeatedPlayersApart ==
  \A a, b \in Players :
    (a # b /\ Seated(a) /\ Seated(b)) => Position(GAME, a) # Position(GAME, b)

\* C2: the purses of all players and goldLeft add up to the 250 nuggets, and
\* so do goldCollected and goldLeft.
C2_GoldConserved ==
  /\ Sum(Purses(GAME)) + GAME.goldLeft = 250
  /\ GAME.goldCollected + GAME.goldLeft = 250

\* two players hold gold
C2_TwoPurses ==
  \E a, b \in Players :
    a # b /\ GAME.players[a].gold > 0 /\ GAME.players[b].gold > 0

\* C3: a tile on which no player of the table stands and no gold pile lies
\* shows its raw character on the master grid.
C3_MasterIsRaw ==
  \A t \in Tiles(GAME) :
    ( /\ \A k \in Players : Position(GAME, k) # t
      /\ MasterAt(GAME, t) # "*" )
    => MasterAt(GAME, t) = RawAt(GAME, t)

\* a step has just taken a player off a tile that nobody stands on now
C3_TileLeft ==
  \E from \in Addrs, key \in StepKeys :
    /\ last = KeyDatagram(from, key)
    /\ sent # << >>
    /\ PlayerOf(GAME, from) # 0
    /\ LET i == PlayerOf(GAME, from)
           old == << GAME.players[i].row - DirKeys[key][1],
                     GAME.players[i].col - DirKeys[key][2] >>
       IN /\ \A k \in Players : Position(GAME, k) # old
          /\ MasterAt(GAME, old) = RawAt(GAME, old)
          /\ MasterAt(GAME, old) = "."

\* C4: piles_left never increases, and it is 0 exactly when goldLeft is 0.
C4_PilesAndGold ==
  /\ [](GAME.GoldNumPilesLeft = 0 <=> GAME.goldLeft = 0)
  /\ [][GAME'.GoldNumPilesLeft <= GAME.GoldNumPilesLeft]_vars

\* the last pile has been taken
C4_LastPileTaken ==
  GAME.GoldNumPilesLeft = 0 /\ GAME.goldLeft = 0 /\ GAME.goldCollected = 250

\* msg is the GAME OVER scoreboard: one line per player of the table with
\* its alias, purse and name
IsScoreboard(msg) ==
  /\ msg.verb = "QUIT"
  /\ msg.text = "GAME OVER:"
  /\ Len(msg.lines) = GAME.numPlayer
  /\ \A k \in Players :
       /\ msg.lines[k].alias = GAME.players[k].alias
       /\ msg.lines[k].realName = GAME.players[k].realName
       /\ msg.lines[k].field # << >>
       /\ msg.lines[k].field[2] = GAME.players[k].gold

ScoreboardSentTo(addr) ==
  \E n \in DOMAIN sent : sent[n].to = addr /\ IsScoreboard(sent[n].msg)

\* C5: the handler of the key that collects the final pile returns with
\* piles_left and goldLeft 0, the loop ends (no further message is handled:
\* the only step left is game_over), and the scoreboard with every player
\* of the table goes to every player of the table and to the spectator.
C5_GameOver ==
  /\ [](GAME.GoldNumPilesLeft = 0 <=> loop \in { "ended", "done" })
  /\ [](GAME.GoldNumPilesLeft = 0 => GAME.goldLeft = 0)
  /\ [][loop = "ended" => (loop' = "done" /\ UNCHANGED << GAME, last, budget >>)]_vars
  /\ [][loop = "done" => UNCHANGED vars]_vars
  /\ [](loop = "done" =>
          /\ \A k \in Players : ScoreboardSentTo(GAME.players[k].IP)
          /\ message_isAddr(GAME.spectatorIP) => ScoreboardSentTo(GAME.spectatorIP))

\* the game is over, the table holds a player who quit and one who did not
C5_OverWithQuitPlayer ==
  /\ loop = "done"
  /\ \E a, b \in Players : quits[a] > 0 /\ quits[b] = 0
  /\ \A k \in Players : ScoreboardSentTo(GAME.players[k].IP)

\* C6: a step toward a tile held by another player P2 (j) exchanges the two
\* positions, the master grid shows each alias on its new tile, and no third
\* player moves.
C6_SwapExchanges ==
  [][ \A key \in StepKeys : \A i, j \in Players :
        ( /\ last' = KeyDatagram(GAME.players[i].IP, key)
          /\ Handled
          /\ i = PlayerOf(GAME, GAME.players[i].IP)
          /\ j # i
          /\ Seated(i) /\ Seated(j)
          /\ Position(GAME, j) = Target(GAME, i, key)
          /\ MasterAt(GAME, Position(GAME, j)) = GAME.players[j].alias )
        => ( /\ Position(GAME', i) = Position(GAME, j)
             /\ Position(GAME', j) = Position(GAME, i)
             /\ MasterAt(GAME', Position(GAME', i)) = GAME.players[i].alias
             /\ MasterAt(GAME', Position(GAME', j)) = GAME.players[j].alias
             /\ \A k \in Players \ { i, j } :
                  Position(GAME', k) = Position(GAME, k) ) ]_vars

\* the GOLD datagrams of a handler that report a pickup (n > 0), in order
Pickups(s) == SelectSeq(s, LAMBDA d : d.msg.verb = "GOLD" /\ d.msg.n > 0)

\* the pickups gs, made one after the other with L nuggets in P piles left
\* before the first: the last pile gives all that is left, any other pile
\* some g in 1 .. L - P + 1
RECURSIVE PickupsInRange(_, _, _)
PickupsInRange(gs, L, P) ==
  \/ gs = << >>
  \/ /\ IF P = 1 THEN Head(gs).msg.n = L
                 ELSE 1 <= Head(gs).msg.n /\ Head(gs).msg.n <= L - P + 1
     /\ PickupsInRange(Tail(gs), L - Head(gs).msg.n, P - 1)

GoldTiles(G) == { t \in Tiles(G) : MasterAt(G, t) = "*" }

\* C7: every gold tile entered gives the mover g nuggets, g = L if P = 1
\* and 1 <= g <= L - P + 1 otherwise; piles_left goes down by 1, goldLeft by
\* g, goldCollected and the mover's purse up by g.
C7_Pickup ==
  [][ LET gs == Pickups(sent')
          total == Sum([ n \in DOMAIN gs |-> gs[n].msg.n ])
          mover == PlayerOf(GAME, last'.from)
      IN /\ Len(gs) = Cardinality(GoldTiles(GAME)) - Cardinality(GoldTiles(GAME'))
         /\ PickupsInRange(gs, GAME.goldLeft, GAME.GoldNumPilesLeft)
         /\ GAME'.GoldNumPilesLeft = GAME.GoldNumPilesLeft - Len(gs)
         /\ GAME'.goldLeft = GAME.goldLeft - total
         /\ GAME'.goldCollected = GAME.goldCollected + total
         /\ \A k \in Players :
              GAME'.players[k].gold =
                GAME.players[k].gold + (IF k = mover THEN total ELSE 0) ]_vars

\* one handler has taken a pile that was not the last and then the last
C7_LastPileInRun ==
  /\ Len(Pickups(sent)) >= 2
  /\ GAME.GoldNumPilesLeft = 0
  /\ loop = "ended"

\* C8: a single step toward rock, a wall segment or a tile outside the grid
\* changes nothing (master grid, positions, purses, ledger, seen grids) and
\* sends nothing.
C8_BlockedStep ==
  [][ \A from \in Addrs, key \in StepKeys :
        ( /\ last' = KeyDatagram(from, key)
          /\ Handled
          /\ PlayerOf(GAME, from) # 0
          /\ NonTraversable(GAME, Target(GAME, PlayerOf(GAME, from), key)) )
        => (GAME' = GAME /\ sent' = << >>) ]_vars

\* the datagram handled last was a step of a player toward a wall segment
C8_SteppedAtWall ==
  \E from \in Addrs, key \in StepKeys :
    /\ last = KeyDatagram(from, key)
    /\ PlayerOf(GAME, from) # 0
    /\ MasterAt(GAME, Target(GAME, PlayerOf(GAME, from), key)) \in { "|", "-" }
    /\ sent = << >>

\* C9: Q from a seated player sends QUIT to its address, puts the raw tile
\* back on the master grid where the player stands, leaves purses and ledger
\* alone, and the loop goes on.
C9_Quit ==
  [][ \A from \in Addrs :
        ( /\ last' = KeyDatagram(from, "Q")
          /\ Handled
          /\ \E k \in Players : GAME.players[k].IP = from /\ Seated(k) )
        => ( /\ \E n \in DOMAIN sent' :
                  sent'[n].to = from /\ sent'[n].msg.verb = "QUIT"
             /\ \A k \in Players :
                  (GAME.players[k].IP = from /\ Seated(k)) =>
                    MasterAt(GAME', Position(GAME, k)) = RawAt(GAME, Position(GAME, k))
             /\ Purses(GAME') = Purses(GAME)
             /\ Ledger(GAME') = Ledger(GAME)
             /\ loop' = "running" ) ]_vars

\* a player with gold in its purse has just quit
C9_QuitWithGold ==
  \E k \in Players :
    /\ last = KeyDatagram(GAME.players[k].IP, "Q")
    /\ quits[k] = 1
    /\ GAME.players[k].gold > 0
    /\ MasterAt(GAME, Position(GAME, k)) = RawAt(GAME, Position(GAME, k))
    /\ \E n \in DOMAIN sent :
         sent[n].to = GAME.players[k].IP /\ sent[n].msg.verb = "QUIT"

\* C10: a Q from an address all of whose players have quit already changes
\* no game state: master grid, positions, purses, ledger, player table.
C10_DuplicateQuit ==
  [][ \A from \in Addrs :
        ( /\ last' = KeyDatagram(from, "Q")
          /\ Handled
          /\ \E k \in Players : GAME.players[k].IP = from
          /\ \A k \in Players : GAME.players[k].IP = from => ~ Seated(k) )
        => ( /\ GAME'.masterGrid = GAME.masterGrid
             /\ Positions(GAME') = Positions(GAME)
             /\ Purses(GAME') = Purses(GAME)
             /\ Ledger(GAME') = Ledger(GAME)
             /\ Table(GAME') = Table(GAME) ) ]_vars

\* C11: once a Q of a player has been handled, no later message moves the
\* player's recorded position or draws its alias on a tile of the master grid.
C11_QuitPlayerStays ==
  [][ \A k \in Players :
        quits[k] > 0 =>
          /\ Position(GAME', k) = Position(GAME, k)
          /\ \A t \in Tiles(GAME) :
               MasterAt(GAME', t) = GAME.players[k].alias =>
                 MasterAt(GAME, t) = GAME.players[k].alias ]_vars

(***************************************************************************)
(* The same server on a second map: a room of one row of floor, a branch   *)
(* of one floor tile north of its west end, and a passage north of the     *)
(* branch.  The clients join and send movement keys.                       *)
(***************************************************************************)
RunMapFile ==
  << << "#", " ", " ", " ", " ", " ", " ", " ", " ", " ", " " >>,
     << ".", " ", " ", " ", " ", " ", " ", " ", " ", " ", " " >>,
     << ".", ".", ".", ".", ".", ".", ".", ".", ".", ".", "." >> >>

RunMessages ==
  { PlayPrefix \o << "B", "o" >> }
    \cup { KeyPrefix \o << key >> : key \in StepKeys \cup RunKeys }

InitRun ==
  /\ \E rnd \in RandVals, start \in 0..MaxScanStart :
       GAME = server_drop_gold(RunMapFile, rnd, ScanDraws(RunMapFile, start))
  /\ sent = << >>
  /\ loop = "running"
  /\ last = NoDatagram
  /\ quits = << >>
  /\ budget = MaxMsgs
  /\ Launch(Args)

NextRun ==
  \/ \E from \in Addrs, message \in RunMessages : Play(from, message)
  \/ \E from \in Addrs, message \in RunMessages : Key(from, message)
  \/ GameOver

SpecRun == InitRun /\ [][NextRun]_vars

\* the single-step key of a run key
StepOf ==
  [ H |-> "h", L |-> "l", J |-> "j", K |-> "k",
    Y |-> "y", U |-> "u", B |-> "b", N |-> "n" ]

\* the client of address from sends the single-step key again and again, as
\* long as the message loop runs, until a step is blocked: what the handler
\* of the last of these datagrams leaves, (W, ret).  rnds are the values the
\* calls of rand() return, left the number of datagrams at most.
RECURSIVE StepByStep(_, _, _, _, _)

StepAgain(res, drew, from, key, rnds, left) ==
  IF res.ret THEN res
  ELSE StepByStep(res.W, from, key,
                  IF drew /\ rnds # << >> THEN Tail(rnds) ELSE rnds, left)

StepByStep(W, from, key, rnds, left) ==
  LET t == Target(W.GAME, PlayerOf(W.GAME, from), key)
  IN IF left = 0 \/ ~ grid_canMoveTo(W.GAME.masterGrid, t[1], t[2])
       THEN handleKEY(W, from, key, rnds)
       ELSE StepAgain(handleKEY(W, from, key, rnds),
                      grid_isGold(W.GAME.masterGrid, t[1], t[2])
                        /\ W.GAME.GoldNumPilesLeft # 1,
                      from, key, rnds, left - 1)

\* C12: the handler of a run key of a player leaves the game (master grid,
\* positions, purses, ledger, seen grids) and the decision to end the message
\* loop as the single-step key sent again and again until a step is blocked
\* leaves them, for the same values of rand().
C12_RunIsSteps ==
  [][ \A from \in Addrs, KEY \in RunKeys :
        ( /\ last' = KeyDatagram(from, KEY)
          /\ Handled
          /\ PlayerOf(GAME, from) # 0 )
        => \E rnds \in DrawSeqs(NumDraws(GAME, from, KEY)) :
             LET res == StepByStep(World, from, StepOf[KEY], rnds,
                                   GAME.GridRow + GAME.GridCol)
             IN /\ GAME' = res.W.GAME
                /\ (loop' = "ended") = res.ret ]_vars

SpectateDatagram(from) == [ from |-> from, message |-> SpectatePrefix ]

\* a DISPLAY of the whole master grid: the DISPLAY of a player shows the
\* player as @, the master grid never holds @
SpectatorDisplay(d) ==
  /\ d.msg.verb = "DISPLAY"
  /\ \A k \in DOMAIN d.msg.text : d.msg.text[k] # "@"

ReplacedMsg == QuitMsg("You have been replaced by a new spectator.")

\* C13: there is one spectator address.  A SPECTATE handled while a
\* spectator is registered first sends the incumbent QUIT 'You have been
\* replaced by a new spectator.' and makes the sender the spectator; the
\* spectator changes in no other way, and every DISPLAY of the whole master
\* grid goes to the address that is the spectator then, so none goes to an
\* evicted address.
C13_SpectatorReplaced ==
  [][ /\ \A from \in Addrs :
           ( /\ last' = SpectateDatagram(from)
             /\ Handled
             /\ message_isAddr(GAME.spectatorIP) )
           => ( /\ sent'[1] = [ to |-> GAME.spectatorIP, msg |-> ReplacedMsg ]
                /\ GAME'.spectatorIP = from )
      /\ GAME'.spectatorIP # GAME.spectatorIP
           => last' = SpectateDatagram(GAME'.spectatorIP)
      /\ \A n \in DOMAIN sent' :
           SpectatorDisplay(sent'[n]) => sent'[n].to = GAME'.spectatorIP ]_vars

\* a SPECTATE has just evicted the spectator of another address, which is a
\* player too: the whole master grid went to the new spectator only
C13_Evicted ==
  \E from \in Addrs, old \in Addrs :
    /\ old # from
    /\ last = SpectateDatagram(from)
    /\ sent # << >>
    /\ sent[1] = [ to |-> old, msg |-> ReplacedMsg ]
    /\ GAME.spectatorIP = from
    /\ \E k \in Players : GAME.players[k].IP = old
    /\ \E n \in DOMAIN sent : SpectatorDisplay(sent[n]) /\ sent[n].to = from
    /\ \A n \in DOMAIN sent : SpectatorDisplay(sent[n]) => sent[n].to # old

(***************************************************************************)
(* The same server on a third map, a room of one row with one floor tile   *)
(* more than piles, and one client that joins, quits when it has a player  *)
(* that has not quit, and joins again, until the table is full.            *)
(***************************************************************************)
FullMapFile ==
  << << ".", ".", ".", ".", ".", ".", ".", ".", ".", ".", "." >> >>

FullAddr == [ family |-> AF_INET, peer |-> 1 ]

FullMessages == { PlayPrefix \o name : name \in Names }

InitFull ==
  /\ \E rnd \in RandVals, start \in 0..MaxScanStart :
       GAME = server_drop_gold(FullMapFile, rnd, ScanDraws(FullMapFile, start))
  /\ sent = << >>
  /\ loop = "running"
  /\ last = NoDatagram
  /\ quits = << >>
  /\ budget = 2 * MaxPlayers + MaxMsgs
  /\ Launch(Args)

\* the client quits
QuitSeated ==
  /\ \E k \in Players : Seated(k)
  /\ Key(FullAddr, KeyPrefix \o << "Q" >>)

\* the client asks to join a full table with a name of StackAlign - 5
\* characters
PlayLate ==
  /\ GAME.numPlayer = MaxPlayers
  /\ \E message \in CopyPlays : Play(FullAddr, message)

NextFull ==
  \/ \E message \in FullMessages : Play(FullAddr, message)
  \/ QuitSeated
  \/ PlayLate

SpecFull == InitFull /\ [][NextFull]_vars

PlayDatagram(from, name) == [ from |-> from, message |-> PlayPrefix \o name ]

FullMsg == QuitMsg("Game is full: no more players can join.")

\* C14: the table never holds more than 26 players and never shrinks (the
\* entries it has keep their place); a PLAY handled when 26 players have
\* been admitted is answered QUIT 'Game is full: no more players can join.'
\* and changes neither the table nor the master grid.
C14_TableFull ==
  [][ /\ GAME'.numPlayer <= MaxPlayers
      /\ Len(GAME'.players) = GAME'.numPlayer
      /\ GAME'.numPlayer >= GAME.numPlayer
      /\ SubSeq(Table(GAME'), 1, GAME.numPlayer) = Table(GAME)
      /\ \A from \in Addrs, name \in Names \cup CopyNames :
           ( /\ last' = PlayDatagram(from, name)
             /\ Handled
             /\ GAME.numPlayer = MaxPlayers )
           => ( /\ sent' = << [ to |-> from, msg |-> FullMsg ] >>
                /\ GAME'.players = GAME.players
                /\ GAME'.numPlayer = GAME.numPlayer
                /\ GAME'.masterGrid = GAME.masterGrid ) ]_vars

\* the white-space characters among the characters the model uses
WhiteSpace == { " ", "\t", "\n", "\r" }

SorryMsg == QuitMsg("Sorry: you must provide player's name.")

\* C15: a PLAY whose name is empty or holds white space only, handled when
\* the table is not full, is answered QUIT 'Sorry: you must provide player's
\* name.' and nothing else is sent; no player is admitted and the game state
\* is unchanged.
C15_BlankName ==
  [][ \A from \in Addrs, name \in Names \cup CopyNames :
        ( /\ last' = PlayDatagram(from, name)
          /\ Handled
          /\ Range(name) \subseteq WhiteSpace
          /\ GAME.numPlayer # MaxPlayers )
        => ( /\ sent' = << [ to |-> from, msg |-> SorryMsg ] >>
             /\ GAME' = GAME
             /\ loop' = "running" ) ]_vars

\* the datagrams of s sent to address to, in order
SentTo(s, to) == SelectSeq(s, LAMBDA d : d.to = to)

\* C16: the k-th PLAY accepted (k from 0) gives the player the alias 'A' + k;
\* the first datagrams sent to the joiner are OK alias, GRID rows cols, a GOLD
\* and a DISPLAY, and the handler ends with the joiner's own GOLD and the
\* DISPLAY of its seen grid; the aliases of the table are pairwise distinct
\* and no alias ever changes.
C16_Alias ==
  [][ /\ \A from \in Addrs, name \in Names \cup CopyNames :
           ( /\ last' = PlayDatagram(from, name)
             /\ Handled
             /\ GAME'.numPlayer = GAME.numPlayer + 1 )
           => LET new == GAME'.players[GAME'.numPlayer]
                  mine == SentTo(sent', from)
                  n == Len(sent')
              IN /\ new.alias = UpperLetters[GAME.numPlayer + 1]
                 /\ new.IP = from
                 /\ Len(mine) >= 4
                 /\ mine[1].msg = [ verb |-> "OK", alias |-> new.alias ]
                 /\ mine[2].msg = [ verb |-> "GRID", nrow |-> GAME.GridRow,
                                    ncol |-> GAME.GridCol ]
                 /\ mine[3].msg.verb = "GOLD"
                 /\ mine[4].msg.verb = "DISPLAY"
                 /\ sent'[1] = mine[1]
                 /\ sent'[2] = mine[2]
                 /\ sent'[n - 1] = [ to |-> from, msg |-> GoldMsg(0, 0, GAME.goldLeft) ]
                 /\ sent'[n] = [ to |-> from,
                                 msg |-> DisplayMsg(grid_toString(new.seenGrid)) ]
      /\ \A k \in Players : GAME'.players[k].alias = GAME.players[k].alias
      /\ \A i \in 1..GAME'.numPlayer, j \in 1..GAME'.numPlayer :
           i # j => GAME'.players[i].alias # GAME'.players[j].alias ]_vars

\* the number of datagrams of one call of server_update_all_clients
BroadcastLen(G) ==
  2 * G.numPlayer + (IF message_isAddr(G.spectatorIP) THEN 2 ELSE 0)

\* the last datagrams sent are one call of server_update_all_clients that
\* left the game G: GOLD 0 0 goldLeft and the whole master grid to the
\* spectator, then to every player of the table GOLD with its purse and
\* goldLeft and the DISPLAY of its seen grid, which a visibility pass on the
\* master grid of G from the player's tile leaves as it is
EndsWithBroadcast(s, G) ==
  LET n == BroadcastLen(G)
      off == IF message_isAddr(G.spectatorIP) THEN 2 ELSE 0
      tail == SubSeq(s, Len(s) - n + 1, Len(s))
  IN /\ Len(s) >= n
     /\ message_isAddr(G.spectatorIP) =>
          /\ tail[1] = [ to |-> G.spectatorIP, msg |-> GoldMsg(0, 0, G.goldLeft) ]
          /\ tail[2] = [ to |-> G.spectatorIP,
                         msg |-> DisplayMsg(grid_toString(G.masterGrid)) ]
     /\ \A k \in 1..G.numPlayer :
          /\ tail[off + 2 * k - 1].to = G.players[k].IP
          /\ tail[off + 2 * k - 1].msg.verb = "GOLD"
          /\ tail[off + 2 * k - 1].msg.p = G.players[k].gold
          /\ tail[off + 2 * k - 1].msg.r = G.goldLeft
          /\ tail[off + 2 * k] =
               [ to |-> G.players[k].IP,
                 msg |-> DisplayMsg(grid_toString(G.players[k].seenGrid)) ]
          /\ G.players[k].seenGrid =
               grid_setVisibility(G.masterGrid, G.rawGrid, G.players[k].seenGrid,
                                  G.players[k].row, G.players[k].col)

\* C17: a handler that changes the master grid, a position, a purse or the
\* spectator ends with a broadcast of the state it leaves, to every player of
\* the table and to the spectator if there is one.
C17_Broadcast ==
  [][ ( \/ GAME'.masterGrid # GAME.masterGrid
        \/ Positions(GAME') # Positions(GAME)
        \/ Purses(GAME') # Purses(GAME)
        \/ GAME'.spectatorIP # GAME.spectatorIP )
      => EndsWithBroadcast(sent', GAME') ]_vars

\* a run key has taken several piles while a second player and a spectator
\* were to be updated
C17_RunWatched ==
  /\ GAME.numPlayer >= 2
  /\ message_isAddr(GAME.spectatorIP)
  /\ Len(Pickups(sent)) >= 2
  /\ Len(sent) > BroadcastLen(GAME)
  /\ EndsWithBroadcast(sent, GAME)

\* the nuggets of the first j reports of gs
Collected(gs, j) == Sum([ n \in 1..j |-> gs[n].msg.n ])

\* C18: every pile taken is reported by one GOLD with a non-zero first
\* field, the GOLD of the collecting player in the broadcast of that step
\* (its purse and goldLeft are those right after that pickup); no other GOLD
\* has a non-zero first field, and when a handler returns justCollected is 0
\* for every player.
C18_JustCollected ==
  [][ /\ \A k \in 1..GAME'.numPlayer : GAME'.players[k].justCollected = 0
      /\ LET gs == Pickups(sent')
             mover == PlayerOf(GAME, last'.from)
             off == IF message_isAddr(GAME'.spectatorIP) THEN 2 ELSE 0
         IN /\ Len(gs) = Cardinality(GoldTiles(GAME)) - Cardinality(GoldTiles(GAME'))
            /\ \A j \in DOMAIN gs :
                 /\ gs[j].to = GAME.players[mover].IP
                 /\ gs[j].msg.p = GAME.players[mover].gold + Collected(gs, j)
                 /\ gs[j].msg.r = GAME.goldLeft - Collected(gs, j)
            /\ \A m \in DOMAIN sent' :
                 (sent'[m].msg.verb = "GOLD" /\ sent'[m].msg.n > 0)
                 => (m - 1) % BroadcastLen(GAME') = off + 2 * mover - 2 ]_vars

\* the second player of an address has just taken several piles with one
\* key: one report for each, none for the first player of the address
C18_TwoReports ==
  /\ GAME.numPlayer = 2
  /\ GAME.players[1].IP = GAME.players[2].IP
  /\ Len(Pickups(sent)) >= 2
  /\ GAME.players[2].gold = Collected(Pickups(sent), Len(Pickups(sent)))
  /\ GAME.players[1].gold = 0
  /\ \A k \in Players : GAME.players[k].justCollected = 0

(***************************************************************************)
(* The same server on every map of a family: a room of three rows of five  *)
(* floor tiles in which at most MaxRock tiles are rock.  A client joins.   *)
(***************************************************************************)
SightBase ==
  << << ".", ".", ".", ".", "." >>,
     << ".", ".", ".", ".", "." >>,
     << ".", ".", ".", ".", "." >> >>

SightCells == { << r, c >> : r \in DOMAIN SightBase, c \in DOMAIN SightBase[1] }

\* the map file with rock on the cells of S
WithRock(S) ==
  Array([ r \in DOMAIN SightBase |->
            Array([ c \in DOMAIN SightBase[r] |->
                      IF << r, c >> \in S THEN " " ELSE SightBase[r][c] ],
                  Len(SightBase[r])) ],
        Len(SightBase))

SightMaps ==
  { WithRock(S) : S \in { T \in SUBSET SightCells : Cardinality(T) <= MaxRock } }

InitSight ==
  /\ \E lines \in SightMaps, rnd \in RandVals, start \in 0..MaxScanStart :
       GAME = server_drop_gold(lines, rnd, ScanDraws(lines, start))
  /\ sent = << >>
  /\ loop = "running"
  /\ last = NoDatagram
  /\ quits = << >>
  /\ budget = SightMsgs
  /\ Launch(Args)

NextSight == \E from \in Addrs : Play(from, PlayPrefix \o << "B", "o" >>)

SpecSight == InitSight /\ [][NextSight]_vars

\* C19: on the raw grid the ray walk gives the same answer in both
\* directions: B is visible from A exactly when A is visible from B.
C19_SightSymmetric ==
  \A A \in Tiles(GAME), B \in Tiles(GAME) :
    grid_isVisible(GAME.rawGrid, A[1], A[2], B[1], B[2])
      = grid_isVisible(GAME.rawGrid, B[1], B[2], A[1], A[2])

\* a player has joined on a map where a ray that passes between two tiles
\* of a row is open and another such ray is blocked by two rock tiles
C19_RaysBetweenTiles ==
  /\ GAME.numPlayer = 1
  /\ \E A \in Tiles(GAME), B \in Tiles(GAME), C \in Tiles(GAME), D \in Tiles(GAME) :
       /\ A[1] + 2 = B[1] /\ A[2] = B[2] + 1
       /\ C[1] + 2 = D[1] /\ C[2] = D[2] + 1
       /\ grid_isVisible(GAME.rawGrid, A[1], A[2], B[1], B[2])
       /\ \E t \in { B[2], A[2] } : grid_isRock(GAME.rawGrid, A[1] + 1, t)
       /\ ~ grid_isVisible(GAME.rawGrid, C[1], C[2], D[1], D[2])
       /\ ~ grid_isVisible(GAME.rawGrid, D[1], D[2], C[1], C[2])

SeenAt(G, k, t) == grid_getchar(G.players[k].seenGrid, t[1], t[2])

\* gold, a player's letter or @
GoldOrPlayer(ch) == ch = "*" \/ ch = "@" \/ isalpha(ch)

\* C20: a tile of a player's seen grid that is not blank is not blank after
\* any later handler, and a tile of a seen grid that is not blank and shows
\* neither gold nor a player shows the tile of the raw grid.
C20_SeenAccretes ==
  [][ /\ \A k \in Players, t \in Tiles(GAME) :
           SeenAt(GAME, k, t) # " " => SeenAt(GAME', k, t) # " "
      /\ \A k \in 1..GAME'.numPlayer, t \in Tiles(GAME') :
           (SeenAt(GAME', k, t) # " " /\ ~ GoldOrPlayer(SeenAt(GAME', k, t)))
           => SeenAt(GAME', k, t) = RawAt(GAME', t) ]_vars

\* a player remembers the floor of a tile it cannot see any more, on which
\* another player stands now
C20_Remembered ==
  \E k \in Players, t \in Tiles(GAME) :
    /\ SeenAt(GAME, k, t) = "."
    /\ isalpha(MasterAt(GAME, t))
    /\ ~ grid_isVisible(GAME.masterGrid, GAME.players[k].row,
                        GAME.players[k].col, t[1], t[2])

\* the tiles of player k's seen grid that show @
AtSigns(G, k) == { t \in Tiles(G) : SeenAt(G, k, t) = "@" }

VisibleFrom(G, k, t) ==
  grid_isVisible(G.masterGrid, G.players[k].row, G.players[k].col, t[1], t[2])

\* C21: the seen grid of every player of the table shows exactly one @, on
\* the player's tile, and every tile of it that shows gold or a letter is
\* visible from the player's tile and shows what the master grid shows there.
C21_NothingStale ==
  \A k \in Players :
    /\ AtSigns(GAME, k) = { Position(GAME, k) }
    /\ \A t \in Tiles(GAME) :
         (SeenAt(GAME, k, t) = "*" \/ isalpha(SeenAt(GAME, k, t)))
         => (VisibleFrom(GAME, k, t) /\ SeenAt(GAME, k, t) = MasterAt(GAME, t))

\* a player that has taken gold is out of sight of the tile of another
\* player, which it saw before: its seen grid shows the raw tile there
C21_OutOfSight ==
  \E k \in Players, t \in Tiles(GAME) :
    /\ GAME.players[k].gold > 0
    /\ AtSigns(GAME, k) = { Position(GAME, k) }
    /\ SeenAt(GAME, k, t) = RawAt(GAME, t)
    /\ isalpha(MasterAt(GAME, t))
    /\ ~ VisibleFrom(GAME, k, t)

\* the tiles strictly between two tiles of a row or of a column
Between(A, B) ==
  { t \in (A[1]..B[1]) \X (A[2]..B[2]) : t # A /\ t # B }

\* passage, wall segment, rock
Obstacle(ch) == ch \in { "#", "|", "-", "+", " " }

\* C22: along a row or a column, a tile that the map has as passage, wall
\* segment or rock blocks the line of sight between the tiles on its two
\* sides, and tiles that the map has as floor do not, whatever stands on
\* them.
C22_MapTilesBlock ==
  \A A \in Tiles(GAME), B \in Tiles(GAME) :
    ( /\ A[1] = B[1] \/ A[2] = B[2]
      /\ A[1] <= B[1] /\ A[2] <= B[2] )
    => /\ (\E t \in Between(A, B) : Obstacle(RawAt(GAME, t)))
            => ~ grid_isVisible(GAME.masterGrid, A[1], A[2], B[1], B[2])
       /\ (\A t \in Between(A, B) : RawAt(GAME, t) = ".")
            => grid_isVisible(GAME.masterGrid, A[1], A[2], B[1], B[2])

\* C23: a KEY, Q included, from an address that has no player that has not
\* quit and is not the spectator changes no game state and no datagram is
\* sent.
C23_StrangerKey ==
  [][ \A from \in Addrs, key \in Keys :
        ( /\ last' = KeyDatagram(from, key)
          /\ Handled
          /\ ~ \E k \in Players : GAME.players[k].IP = from /\ Seated(k)
          /\ GAME.spectatorIP # from )
        => (GAME' = GAME /\ sent' = << >>) ]_vars

\* snprintf(messageUnknown, 100, "ERROR Unknown Keystroke: %c", KEY)
UnknownMsg(key) == [ verb |-> "ERROR", text |-> "Unknown Keystroke: ", key |-> key ]

\* C24: a KEY with a character that is no movement key and not Q, from the
\* address of a player that has not quit, is answered by one ERROR to that
\* address; nothing else is sent and the game state is unchanged.
C24_UnknownKey ==
  [][ \A from \in Addrs, key \in Keys \ (StepKeys \cup RunKeys \cup { "Q" }) :
        ( /\ last' = KeyDatagram(from, key)
          /\ Handled
          /\ \E k \in Players : GAME.players[k].IP = from /\ Seated(k) )
        => ( /\ sent' = << [ to |-> from, msg |-> UnknownMsg(key) ] >>
             /\ GAME' = GAME
             /\ loop' = "running" ) ]_vars

\* a player has just sent the key x while another player and a spectator
\* were there to be updated
C24_ErrorOnly ==
  \E k \in Players :
    /\ last = KeyDatagram(GAME.players[k].IP, "x")
    /\ Seated(k)
    /\ GAME.numPlayer >= 2
    /\ message_isAddr(GAME.spectatorIP)
    /\ sent = << [ to |-> GAME.players[k].IP, msg |-> UnknownMsg("x") ] >>

\* the cells of grid g and those of a margin of one cell around it
WithMargin(g) == ((0 - 1)..g.nrow) \X ((0 - 1)..g.ncol)

InBounds(g, t) == t[1] >= 0 /\ t[1] < g.nrow /\ t[2] >= 0 /\ t[2] < g.ncol

\* grid h shows what grid g shows on every cell inside the grid but t
SameBut(g, h, t) ==
  \A u \in (0..(g.nrow - 1)) \X (0..(g.ncol - 1)) :
    u # t => grid_getchar(h, u[1], u[2]) = grid_getchar(g, u[1], u[2])

\* C25: outside the grid a read gives ^, which no cell of the grid holds,
\* and a write changes no cell of the grid; inside, a read after a write
\* gives the character written, and the write changes no other cell.
C25_ReadWrite ==
  \A t \in WithMargin(GAME.masterGrid), ch \in { "*", "Z" } :
    /\ SameBut(GAME.masterGrid, grid_update(GAME.masterGrid, t[1], t[2], ch), t)
    /\ IF InBounds(GAME.masterGrid, t)
         THEN /\ grid_getchar(GAME.masterGrid, t[1], t[2]) # "^"
              /\ grid_getchar(grid_update(GAME.masterGrid, t[1], t[2], ch),
                              t[1], t[2]) = ch
         ELSE /\ grid_getchar(GAME.masterGrid, t[1], t[2]) = "^"
              /\ grid_getchar(grid_update(GAME.masterGrid, t[1], t[2], ch),
                              t[1], t[2]) = "^"

\* handlePlay has written the letter of a player on a tile of the east
\* edge of the grid, which is not in the last row
C25_WrittenOnEdge ==
  /\ GAME.numPlayer = 1
  /\ GAME.players[1].col = GAME.GridCol - 1
  /\ GAME.players[1].row < GAME.GridRow - 1
  /\ MasterAt(GAME, Position(GAME, 1)) = "A"
  /\ grid_getchar(GAME.masterGrid, GAME.players[1].row, GAME.GridCol) = "^"

(***************************************************************************)
(* The same server with clients that only join, under names with a        *)
(* carriage return, with a blank inside, of MaxNameLength + 1 bytes, and   *)
(* of a tab only.                                                          *)
(***************************************************************************)
LongName == [ k \in 1..(MaxNameLength + 1) |-> IF k > MaxNameLength THEN "z" ELSE "x" ]

NameInputs ==
  { << "B", "\r" >>, << "a", " ", "b" >>, Array(LongName, MaxNameLength + 1), << "\t" >> }

NameMessages == { PlayPrefix \o name : name \in NameInputs }

NextName == \E from \in Addrs, message \in NameMessages : Play(from, message)

SpecName == Init /\ [][NextName]_vars

\* the name the claim describes: the first MaxNameLength bytes at most, with
\* _ for every byte that is neither graphic nor a blank (space, tab)
Sanitised(name) ==
  [ k \in 1..(IF Len(name) < MaxNameLength THEN Len(name) ELSE MaxNameLength) |->
      IF name[k] \in GraphChars \/ name[k] \in { " ", "\t" } THEN name[k] ELSE "_" ]

\* C26: the real name stored for a player admitted is the first 50 bytes at
\* most of the name of the PLAY, with _ in the place of every byte that is
\* neither graphic nor blank.
C26_StoredName ==
  [][ \A from \in Addrs, name \in NameInputs \cup Names :
        ( /\ last' = PlayDatagram(from, name)
          /\ Handled
          /\ GAME'.numPlayer = GAME.numPlayer + 1 )
        => GAME'.players[GAME'.numPlayer].realName = Sanitised(name) ]_vars

(***************************************************************************)
(* The seed argument                                                       *)
(***************************************************************************)
\* command lines: no seed, seeds (plain, with a sign, after white space,
\* before other text), and arguments parseArgs exits on
SeedArgs ==
  { << >>, << << "7" >> >>, << << "4", "2" >> >>, << << " ", "\t", "9" >> >>,
    << << " ", "+", "5" >> >>, << << "3", "x" >> >>, << << "0" >> >>,
    << << "-", "3" >> >>, << << " ", "-", "3" >> >>, << << "x" >> >>,
    << << "+", " ", "3" >> >>, << << "7" >>, << "7" >> >> }

InitSeed ==
  /\ \E rnd \in RandVals, start \in 0..MaxScanStart :
       GAME = server_drop_gold(MapFile, rnd, ScanDraws(MapFile, start))
  /\ sent = << >>
  /\ loop = "running"
  /\ last = NoDatagram
  /\ quits = << >>
  /\ budget = MaxMsgs
  /\ \E args \in SeedArgs : Launch(args)

SpecSeed == InitSeed /\ [][NextName]_vars

\* C27: when a seed is given on the command line, the generator is seeded
\* with the value of that argument.
C27_SeededWithArgument ==
  Len(proc.argv) = 1 => proc.srand = atoi(proc.argv[1])

\* the datagram is a keystroke other than Q
MoveKey(d) ==
  StartsWith(d.message, KeyPrefix) /\ d.message # KeyPrefix \o << "Q" >>

\* C28: the handler returns true, which ends the loop, only with no pile
\* left; the handler of PLAY (accepted or refused), of SPECTATE, of the
\* keystroke Q and of an unrecognised message returns false: the loop goes on.
C28_ReturnsTrueOnlyAtZero ==
  [][Handled =>
       /\ loop' = "ended" => GAME'.GoldNumPilesLeft = 0
       /\ ~ MoveKey(last') => loop' # "ended"]_vars

\* the loop has ended on a keystroke, after a PLAY that was accepted and a
\* SPECTATE, which both let it go on
C28_EndedOnKey ==
  /\ loop = "ended"
  /\ MoveKey(last)
  /\ GAME.GoldNumPilesLeft = 0
  /\ GAME.numPlayer >= 1
  /\ message_isAddr(GAME.spectatorIP)

\* the larger of the two sides of the grid
LongSide(G) == IF G.GridRow > G.GridCol THEN G.GridRow ELSE G.GridCol

\* C29: every run key is handled to the end after fewer moves than the grid
\* is long (each move is followed by one broadcast), and when the handler has
\* returned the tile next to the player in the direction of the run is rock,
\* a wall segment or outside the grid: neither a swap nor a pickup on the way
\* stops the run.
C29_RunStopsAtObstacle ==
  [][\A from \in Addrs, key \in RunKeys :
       (Handled /\ last' = KeyDatagram(from, key) /\ PlayerOf(GAME, from) # 0) =>
         /\ Len(sent') < LongSide(GAME) * BroadcastLen(GAME)
         /\ NonTraversable(GAME', Target(GAME', PlayerOf(GAME, from), key))]_vars

\* a run of eleven moves on the corridor, from its last tile to its first:
\* a swap with the other player, then the ten piles
C29_RanThroughSwapAndPiles ==
  \E from \in Addrs, key \in RunKeys :
    /\ last = KeyDatagram(from, key)
    /\ GAME.numPlayer = 2
    /\ PlayerOf(GAME, from) # 0
    /\ Position(GAME, PlayerOf(GAME, from)) = << 0, 0 >>
    /\ \E k \in Players : k # PlayerOf(GAME, from) /\ Position(GAME, k) = << 0, 11 >>
    /\ Len(Pickups(sent)) = 10
    /\ Len(sent) = 11 * BroadcastLen(GAME)

(***************************************************************************)
(* Setup: a room of 30 floor tiles, every number of piles                  *)
(***************************************************************************)
SetupMapFile ==
  << << ".", ".", ".", ".", ".", ".", "|" >>,
     << ".", ".", ".", ".", ".", ".", "|" >>,
     << ".", ".", ".", ".", ".", ".", "#" >>,
     << ".", ".", ".", ".", ".", ".", "|" >>,
     << ".", ".", ".", ".", ".", ".", " " >> >>

\* the values the first call of rand() returns: every residue, and one
\* value beyond them
SetupRands == 0..(GoldMaxNumPiles - GoldMinNumPiles)

\* the draws of the scan from column start, every cell drawn twice in a row
\* and with values that are not yet reduced to the sides of the grid
SetupDraws(lines, start) ==
  LET scan == ScanDraws(lines, start)
  IN [ k \in 1..(2 * Len(scan)) |->
         << scan[(k + 1) \div 2][1] + Len(lines),
            scan[(k + 1) \div 2][2] + Len(lines[1]) >> ]

InitSetup ==
  /\ \E rnd \in SetupRands, start \in 0..MaxSetupStart :
       GAME = server_drop_gold(SetupMapFile, rnd, SetupDraws(SetupMapFile, start))
  /\ sent = << >>
  /\ loop = "running"
  /\ last = NoDatagram
  /\ quits = << >>
  /\ budget = SightMsgs
  /\ Launch(Args)

SpecSetup == InitSetup /\ [][NextSight]_vars

\* C30: after setup (no datagram handled yet) piles_left is between 10 and
\* 29, exactly piles_left tiles of the master grid hold a pile, each of them
\* a floor tile of the raw grid, goldLeft is 250 and goldCollected is 0.
C30_AfterSetup ==
  last = NoDatagram =>
    /\ 10 <= GAME.GoldNumPilesLeft /\ GAME.GoldNumPilesLeft <= 29
    /\ Cardinality(GoldTiles(GAME)) = GAME.GoldNumPilesLeft
    /\ \A t \in GoldTiles(GAME) : RawAt(GAME, t) = "."
    /\ GAME.goldLeft = 250
    /\ GAME.goldCollected = 0

\* setup has placed 29 piles; draws of the wall, of the passage, of rock and
\* of tiles that hold a pile already were drawn again
C30_MostPiles ==
  /\ last = NoDatagram
  /\ GAME.GoldNumPilesLeft = 29
  /\ Cardinality(GoldTiles(GAME)) = 29
  /\ MasterAt(GAME, << 2, 6 >>) = "#"

\* C31: an accepted PLAY puts the new player on a tile the master grid had
\* as empty floor before; afterwards the master grid has the new alias on
\* that tile, and the gold ledger and the position of every player who was
\* at the table already are as before.
C31_Placement ==
  [][(Handled /\ GAME'.numPlayer = GAME.numPlayer + 1) =>
       LET new == GAME'.numPlayer
       IN /\ MasterAt(GAME, Position(GAME', new)) = "."
          /\ MasterAt(GAME', Position(GAME', new)) = GAME'.players[new].alias
          /\ Ledger(GAME') = Ledger(GAME)
          /\ \A k \in Players : Position(GAME', k) = Position(GAME, k)]_vars

\* a player has joined a game in which another player has collected gold
C31_JoinedLate ==
  /\ StartsWith(last.message, PlayPrefix)
  /\ GAME.numPlayer = 2
  /\ GAME.players[1].gold > 0
  /\ GAME.players[2].gold = 0
  /\ MasterAt(GAME, Position(GAME, 2)) = "B"

\* a character of the master grid that stops a ray: anything but floor,
\* gold and the letter of a player
Blocking(G, r, c) ==
  MasterAt(G, << r, c >>) \notin ({ ".", "*" } \cup Range(UpperLetters))

StrictlyBetween(a, b) ==
  IF a < b THEN (a + 1)..(b - 1) ELSE (b + 1)..(a - 1)

\* the integer f with f <= num/den < f + 1, among 0 .. side
FloorOfQuotient(num, den, side) ==
  CHOOSE f \in 0..side :
    IF den > 0 THEN f * den <= num /\ num < (f + 1) * den
               ELSE f * den >= num /\ num > (f + 1) * den

\* the ray from (pr, pc) to (r, c) passes line i of the first axis, which it
\* crosses at num/den on the second axis; blocked(x) tells whether the cell
\* x of that line is blocking
Passes(num, den, side, blocked(_)) ==
  LET f == FloorOfQuotient(num, den, side)
  IN IF f * den = num THEN ~ blocked(f)
     ELSE ~ blocked(f) \/ ~ blocked(f + 1)

\* the ray walk as specified
RayWalk(G, pr, pc, r, c) ==
  IF r = pr /\ c = pc THEN TRUE
  ELSE IF r = pr THEN \A j \in StrictlyBetween(pc, c) : ~ Blocking(G, pr, j)
  ELSE IF c = pc THEN \A i \in StrictlyBetween(pr, r) : ~ Blocking(G, i, pc)
  ELSE /\ \A i \in StrictlyBetween(pr, r) :
            Passes((i - pr) * (c - pc) + pc * (r - pr), r - pr, G.GridCol,
                   LAMBDA x : Blocking(G, i, x))
       /\ \A j \in StrictlyBetween(pc, c) :
            Passes((j - pc) * (r - pr) + pr * (c - pc), c - pc, G.GridRow,
                   LAMBDA x : Blocking(G, x, j))

\* C32: for every viewpoint and every target of the grid grid_isVisible on
\* the master grid gives the result of the specified ray walk: every row and
\* every column strictly between the two is passed, through the single cell
\* the ray crosses or through one of the two cells it passes between; on the
\* viewpoint's row or column no cell in between is blocking; the viewpoint
\* itself is visible.
C32_RayWalk ==
  \A P \in Tiles(GAME), T \in Tiles(GAME) :
    grid_isVisible(GAME.masterGrid, P[1], P[2], T[1], T[2])
      = RayWalk(GAME, P[1], P[2], T[1], T[2])

\* a player has joined, and on the master grid one ray passes between a
\* rock tile and a gold pile, another is stopped between two rock tiles, and
\* a third is stopped on the viewpoint's own row
C32_RaysOfAllKinds ==
  /\ GAME.numPlayer = 1
  /\ \E P \in Tiles(GAME), T \in Tiles(GAME) :
       /\ P[1] + 2 = T[1] /\ P[2] = T[2] + 1
       /\ grid_isVisible(GAME.masterGrid, P[1], P[2], T[1], T[2])
       /\ { MasterAt(GAME, << P[1] + 1, T[2] >>),
            MasterAt(GAME, << P[1] + 1, P[2] >>) } = { " ", "*" }
  /\ \E P \in Tiles(GAME), T \in Tiles(GAME) :
       /\ P[1] + 2 = T[1] /\ P[2] = T[2] + 1
       /\ ~ grid_isVisible(GAME.masterGrid, P[1], P[2], T[1], T[2])
  /\ \E P \in Tiles(GAME), T \in Tiles(GAME) :
       /\ P[1] = T[1]
       /\ ~ grid_isVisible(GAME.masterGrid, P[1], P[2], T[1], T[2])

\* C33: whenever a handler has returned, the master grid shows, on the tile
\* of every player of the table who has not quit, that player's alias.
C33_AliasOnTile ==
  \A k \in Players :
    Seated(k) => MasterAt(GAME, Position(GAME, k)) = GAME.players[k].alias

\* C34: whenever a handler has returned, the master grid has piles_left
\* tiles with a pile; no handler puts a pile on a tile, and the piles a
\* handler takes away are as many as piles_left goes down.
C34_PilesOnGrid ==
  /\ [](Cardinality(GoldTiles(GAME)) = GAME.GoldNumPilesLeft)
  /\ [][/\ GoldTiles(GAME') \subseteq GoldTiles(GAME)
        /\ Cardinality(GoldTiles(GAME) \ GoldTiles(GAME'))
             = GAME.GoldNumPilesLeft - GAME'.GoldNumPilesLeft]_vars

\* a player took two piles, then quit
C34_QuitAfterPickups ==
  /\ last.message = KeyPrefix \o << "Q" >>
  /\ \E k \in Players : quits[k] > 0 /\ GAME.players[k].gold > 0
  /\ GAME.GoldNumPilesLeft = GoldMinNumPiles - 2
  /\ Cardinality(GoldTiles(GAME)) = GoldMinNumPiles - 2

\* C35: whenever a handler has returned goldLeft is at least piles_left, so
\* the range 1 .. goldLeft - piles_left + 1 a pickup draws from is not empty
\* and every pile on the grid is worth a nugget at least; the piles a
\* handler takes give at least one nugget each.
C35_NuggetPerPile ==
  /\ [](GAME.goldLeft >= GAME.GoldNumPilesLeft)
  /\ [][GAME.goldLeft - GAME'.goldLeft
          >= GAME.GoldNumPilesLeft - GAME'.GoldNumPilesLeft]_vars

\* a pile was taken when goldLeft was piles_left: the draw range was 1 .. 1
C35_OneNuggetEach ==
  /\ GAME.goldLeft = GAME.GoldNumPilesLeft
  /\ GAME.GoldNumPilesLeft > 0
  /\ Len(Pickups(sent)) = 1
  /\ Pickups(sent)[1].msg.n = 1
  /\ Pickups(sent)[1].msg.r = GAME.GoldNumPilesLeft

\* C36: no two players of the table have the same address.
C36_OneSeatPerAddress ==
  \A a, b \in Players :
    a # b => ~ message_eqAddr(GAME.players[a].IP, GAME.players[b].IP)

\* the QUIT of a player's quit, of the spectator's quit and of the
\* replacement of the spectator
Farewells ==
  { QuitMsg("Thanks for playing!"), QuitMsg("Thanks for watching!"), ReplacedMsg }

\* the datagram is a PLAY or a SPECTATE of address a
Rejoins(d, a) ==
  /\ d.from = a
  /\ StartsWith(d.message, PlayPrefix) \/ StartsWith(d.message, SpectatePrefix)

Update(d) == d.msg.verb \in { "GOLD", "DISPLAY" }

\* C37: an address the server has sent the QUIT of a quit or of a replacement
\* gets no GOLD and no DISPLAY after it, neither from the same handler nor
\* from the handler of the next datagram, unless that handler handles a PLAY
\* or a SPECTATE of the address.
C37_SilentAfterQuit ==
  /\ [](\A n \in DOMAIN sent, m \in DOMAIN sent :
          (n < m /\ sent[n].msg \in Farewells /\ sent[m].to = sent[n].to
             /\ ~ Rejoins(last, sent[n].to))
            => ~ Update(sent[m]))
  /\ [][Handled =>
          \A n \in DOMAIN sent, m \in DOMAIN sent' :
            (sent[n].msg \in Farewells /\ sent'[m].to = sent[n].to
               /\ ~ Rejoins(last', sent[n].to))
              => ~ Update(sent'[m])]_vars

\* C38: whenever a handler has returned, every player of the table stands
\* on a tile of the grid that the raw grid has as floor or as passage.
C38_OnFloorOrPassage ==
  \A k \in Players :
    /\ Position(GAME, k) \in Tiles(GAME)
    /\ RawAt(GAME, Position(GAME, k)) \in { ".", "#" }

\* a player has stepped into the passage
C38_InPassage ==
  \E k \in Players :
    /\ RawAt(GAME, Position(GAME, k)) = "#"
    /\ MasterAt(GAME, Position(GAME, k)) = GAME.players[k].alias
    /\ StartsWith(last.message, KeyPrefix)

\* C39: setup has placed every pile, and the handler of every PLAY returns:
\* the placement of the new player ends, and the first datagram the handler
\* sends is the answer to the sender, OK or QUIT.
C39_PlayAnswered ==
  /\ [](last = NoDatagram => Cardinality(GoldTiles(GAME)) = GAME.GoldNumPilesLeft)
  /\ [][(Handled /\ StartsWith(last'.message, PlayPrefix)) =>
          /\ loop' # "hung"
          /\ sent' # << >>
          /\ Head(sent').to = last'.from
          /\ Head(sent').msg.verb \in { "OK", "QUIT" }]_vars

(***************************************************************************)
(* A corridor that ends in passages                                        *)
(***************************************************************************)
PassageMapFile ==
  << << ".", ".", ".", ".", ".", ".", ".", ".", ".", ".", ".", "#", "#" >>,
     << " ", " ", " ", " ", " ", " ", " ", " ", " ", " ", "|", "#", " " >> >>

InitPassage ==
  /\ \E rnd \in RandVals, start \in 0..MaxScanStart :
       GAME = server_drop_gold(PassageMapFile, rnd, ScanDraws(PassageMapFile, start))
  /\ sent = << >>
  /\ loop = "running"
  /\ last = NoDatagram
  /\ quits = << >>
  /\ budget = MaxMsgs
  /\ Launch(Args)

SpecPassage == InitPassage /\ [][NextRun]_vars

\* the tiles of the grid next to t, diagonals included
Neighbours(G, t) ==
  { n \in Tiles(G) :
      /\ n # t
      /\ n[1] - t[1] \in { 0 - 1, 0, 1 }
      /\ n[2] - t[2] \in { 0 - 1, 0, 1 } }

\* C40: in every state, every tile next to a player (diagonals included)
\* that is not rock is visible from the player's tile, whatever the tiles
\* around are, and the player's seen grid shows it as the master grid has it.
C40_NeighboursSeen ==
  \A k \in Players :
    \A n \in Neighbours(GAME, Position(GAME, k)) :
      MasterAt(GAME, n) # " " =>
        /\ grid_isVisible(GAME.masterGrid, Position(GAME, k)[1],
                          Position(GAME, k)[2], n[1], n[2])
        /\ SeenAt(GAME, k, n) = MasterAt(GAME, n)

\* a player stands in a passage next to two passage tiles, a wall segment
\* and a floor tile, and sees them all
C40_InsideCorridor ==
  \E k \in Players :
    /\ Position(GAME, k) = << 0, 11 >>
    /\ SeenAt(GAME, k, << 0, 12 >>) = "#"
    /\ SeenAt(GAME, k, << 1, 11 >>) = "#"
    /\ SeenAt(GAME, k, << 1, 10 >>) = "|"
    /\ SeenAt(GAME, k, << 0, 10 >>) = "."
    /\ SeenAt(GAME, k, << 1, 12 >>) = " "

=============================================================================
